---- MODULE Spec2Model ----
(***************************************************************************)
(* Model of the Eversolo integration (intg_eversolo): the device object    *)
(* (device.py: connection, poll tick, catalogs, accessors, commands) and   *)
(* the media player entity's command handler (media_player.py).            *)
(*                                                                         *)
(* Text is modelled as a sequence of one-character strings, so that        *)
(* str.replace and str.lower are computed, not assumed.  A Python dict is  *)
(* a sequence of [k, v] pairs in insertion order.                          *)
(***************************************************************************)
EXTENDS Integers, Sequences, FiniteSets, TLC

VARIABLES
    session,      \* self._session: "none" | "open" | "closing"
    macStored,    \* self._device_config.mac_address is set
    state_data,   \* self._state_data
    sources,      \* self._sources      {tag: name}
    source_tags,  \* self._source_tags  {name: tag}
    outputs,      \* self._outputs      {tag: name}
    output_tags,  \* self._output_tags  {name: tag}
    est,          \* the establish_connection / close_connection call in progress
    tick,         \* the poll_device call in progress (or the last one)
    last,         \* the last command call and what it returned
    wire          \* the input/output list the catalog functions are applied to

vars == <<session, macStored, state_data, sources, source_tags, outputs,
          output_tags, est, tick, last, wire>>

(***************************************************************************)
(* Bounds of the model.                                                    *)
(***************************************************************************)
\* longest inputData / outputData list drawn for the catalog functions
MaxList == 2

(***************************************************************************)
(* Text.                                                                   *)
(***************************************************************************)
\* str.lower() on one character (the letters the model's tags use)
LowerChar(c) ==
    CASE c = "A" -> "a" [] c = "B" -> "b" [] c = "C" -> "c" [] c = "D" -> "d"
      [] c = "H" -> "h" [] c = "I" -> "i" [] c = "L" -> "l" [] c = "M" -> "m"
      [] c = "R" -> "r" [] c = "S" -> "s" [] c = "T" -> "t" [] c = "U" -> "u"
      [] c = "X" -> "x" [] OTHER -> c

\* str.lower()
Lower(s) == [i \in 1..Len(s) |-> LowerChar(s[i])]

NotSlash(c) == c # "/"

\* tag.replace("/", "")
StripSlash(s) == SelectSeq(s, NotSlash)

(***************************************************************************)
(* Python dict, in insertion order.                                        *)
(***************************************************************************)
DictHas(d, k) == \E i \in 1..Len(d) : d[i].k = k

DictIndex(d, k) == CHOOSE i \in 1..Len(d) : d[i].k = k

\* d.get(k) for a key the dict holds
DictGet(d, k) == d[DictIndex(d, k)].v

\* d[k] = v: a new key is appended, an old key keeps its place
DictSet(d, k, v) ==
    IF DictHas(d, k)
    THEN [i \in 1..Len(d) |-> IF d[i].k = k THEN [k |-> k, v |-> v] ELSE d[i]]
    ELSE Append(d, [k |-> k, v |-> v])

\* list(d.values())
DictValues(d) == [i \in 1..Len(d) |-> d[i].v]

ValueSet(d) == {d[i].v : i \in 1..Len(d)}

(***************************************************************************)
(* JSON scalars.  A numeric field is a record: the number, JSON null, a     *)
(* missing key, or a value that is not a number (a string).                *)
(***************************************************************************)
Num(n) == [t |-> "num", n |-> n]
JNull == [t |-> "null", n |-> 0]
JAbsent == [t |-> "absent", n |-> 0]
JStr == [t |-> "str", n |-> 0]

\* Python's None for an optional int, and an int result
NoneVal == [k |-> "none", n |-> 0]
Some(n) == [k |-> "int", n |-> n]

\* absent or null text (dict.get without default)
NoText == "<None>"

\* the result of a call: a value, or the exception it raised
Ret(v) == [exc |-> "none", val |-> v]
Raise(e) == [exc |-> e, val |-> NoneVal]

\* bool(x) of a JSON flag: true / false / 1 / 0 / null / absent
Truthy(flag) == flag \in {"true", "1"}

(***************************************************************************)
(* The two payloads of a poll.                                             *)
(*                                                                         *)
(* Transport state (getState): k is "obj", "null" (JSON null) or "absent"  *)
(* (nothing stored yet: _state_data.get(..., {}) reads it as {}).          *)
(*   vd: volumeData is "obj", "null" or "absent"; cur, max: its            *)
(*   currenttVolume and maxVolume; mute: its isMute flag.                  *)
(*   pmk / pm: playingMusic ("obj", "null", "absent"); aik / ai:           *)
(*   everSoloPlayInfo.everSoloPlayAudioInfo ("null": everSoloPlayInfo is   *)
(*   null, "nullInner": everSoloPlayAudioInfo is null).                    *)
(*   mac: deviceInfo.net_mac is present.                                   *)
(* Input/output list (getInputAndOutputList): k is "obj", "empty" ({}),    *)
(* "null" or "absent".  An entry holds its tag (tagNull: the tag is JSON   *)
(* null), its name (<<>>: empty, null or missing, all falsy alike) and its *)
(* enable flag: "true", "false", "1", "0" or "absent".                     *)
(***************************************************************************)
NoPM == [title |-> NoText, artist |-> NoText, album |-> NoText,
         albumArt |-> NoText, albumArtBig |-> NoText, artwork |-> NoText,
         image |-> NoText, thumb |-> NoText, coverUrl |-> NoText]

NoAI == [songName |-> NoText, artistName |-> NoText, albumName |-> NoText,
         albumUrl |-> NoText, albumArt |-> NoText, artwork |-> NoText,
         coverArt |-> NoText, image |-> NoText, thumb |-> NoText]

EmptyMusic == [k |-> "obj", state |-> JAbsent, vd |-> "absent", cur |-> JAbsent,
               max |-> JAbsent, mute |-> "absent", playType |-> JAbsent,
               pmk |-> "absent", pm |-> NoPM, aik |-> "absent", ai |-> NoAI,
               duration |-> JAbsent, position |-> JAbsent, mac |-> FALSE]

NoMusic == [EmptyMusic EXCEPT !.k = "absent"]
NullMusic == [EmptyMusic EXCEPT !.k = "null"]

Entry(tag, name, enable) ==
    [tag |-> tag, tagNull |-> FALSE, name |-> name, enable |-> enable]

EmptyIO == [k |-> "empty", inputData |-> <<>>, outputData |-> <<>>,
            inputIndex |-> JAbsent, outputIndex |-> JAbsent]
NoIO == [EmptyIO EXCEPT !.k = "absent"]

\* Python truthiness of the fetched input/output list (device.py:162)
IOTruthy(io) == io.k = "obj"

(***************************************************************************)
(* Catalogs: _parse_sources and _parse_outputs.                            *)
(***************************************************************************)
RECURSIVE ParseSourcesFrom(_, _, _, _)
\* the for loop of _parse_sources from entry i on; an exception leaves the
\* catalog as far as it was built
ParseSourcesFrom(list, i, src, tags) ==
    IF i > Len(list)
    THEN [exc |-> "none", byTag |-> src, byName |-> tags]
    ELSE IF list[i].tagNull
    THEN [exc |-> "AttributeError", byTag |-> src, byName |-> tags]
    ELSE LET tag == StripSlash(list[i].tag)
             name == list[i].name
         IN  IF tag # <<>> /\ name # <<>>
             THEN ParseSourcesFrom(list, i + 1, DictSet(src, tag, name),
                                   DictSet(tags, name, tag))
             ELSE ParseSourcesFrom(list, i + 1, src, tags)

parse_sources(io) == ParseSourcesFrom(io.inputData, 1, <<>>, <<>>)

\* a plausible slip: any truthy enable flag (the integer 1 too) is accepted
EnableTruthy(e) == Truthy(e.enable)

\* output.get("enable") is True
EnableIsTrue(e) == e.enable = "true"

RECURSIVE ParseOutputsFrom(_, _, _, _)
ParseOutputsFrom(list, i, out, tags) ==
    IF i > Len(list)
    THEN [exc |-> "none", byTag |-> out, byName |-> tags]
    ELSE IF ~EnableIsTrue(list[i])
    THEN ParseOutputsFrom(list, i + 1, out, tags)
    ELSE IF list[i].tagNull
    THEN [exc |-> "AttributeError", byTag |-> out, byName |-> tags]
    ELSE LET tag == StripSlash(list[i].tag)
             name == list[i].name
         IN  IF tag # <<>> /\ name # <<>>
             THEN ParseOutputsFrom(list, i + 1, DictSet(out, tag, name),
                                   DictSet(tags, name, tag))
             ELSE ParseOutputsFrom(list, i + 1, out, tags)

parse_outputs(io) == ParseOutputsFrom(io.outputData, 1, <<>>, <<>>)

(***************************************************************************)
(* Accessors.  Each takes the stored snapshot sd = _state_data (and the    *)
(* catalog it reads) and gives Ret(value) or Raise(exception).             *)
(***************************************************************************)
\* int((c / m) * 100) in double arithmetic falls one short of the exact
\* floor for these (c, m), 0 <= c <= m <= 100
PctShort == {<<29, 50>>, <<29, 100>>, <<57, 100>>, <<58, 100>>}

PyPct(c, m) == ((c * 100) \div m) - (IF <<c, m>> \in PctShort THEN 1 ELSE 0)

get_volume(sd) ==
    LET m == sd.music IN
    IF m.k = "null" \/ m.vd = "null" THEN Raise("AttributeError")
    ELSE IF m.vd = "absent" THEN Ret(NoneVal)
    ELSE IF m.cur.t \in {"null", "absent"} THEN Ret(NoneVal)
    ELSE IF m.max.t \in {"null", "absent"} THEN Ret(NoneVal)
    ELSE IF m.max.t = "str" THEN Raise("TypeError")
    ELSE IF m.max.n = 0 THEN Ret(NoneVal)
    ELSE IF m.max.n < 0 THEN Ret(NoneVal)
    ELSE IF m.cur.t = "str" THEN Raise("TypeError")
    ELSE Ret(Some(PyPct(m.cur.n, m.max.n)))

get_muted(sd) ==
    LET m == sd.music IN
    IF m.k = "null" \/ m.vd = "null" THEN Raise("AttributeError")
    ELSE IF m.vd = "absent" THEN Ret(FALSE)
    ELSE Ret(Truthy(m.mute))

\* get_state with code 4 missing from its table
StateWithoutPaused(sd) ==
    LET m == sd.music IN
    IF m.k = "null" THEN Raise("AttributeError")
    ELSE IF m.state.t # "num" THEN Ret("UNKNOWN")
    ELSE IF m.state.n = 0 THEN Ret("IDLE")
    ELSE IF m.state.n = 3 THEN Ret("PLAYING")
    ELSE Ret("UNKNOWN")

get_state(sd) ==
    LET m == sd.music IN
    IF m.k = "null" THEN Raise("AttributeError")
    ELSE IF m.state.t # "num" THEN Ret("UNKNOWN")
    ELSE IF m.state.n = 0 THEN Ret("IDLE")
    ELSE IF m.state.n = 3 THEN Ret("PLAYING")
    ELSE IF m.state.n = 4 THEN Ret("PAUSED")
    ELSE Ret("UNKNOWN")

\* the name at the snapshot's index, in catalog order
CurrentAt(idx, cat) ==
    IF idx.t = "absent" THEN Ret(<<>>)
    ELSE IF idx.t # "num" THEN Raise("TypeError")
    ELSE IF idx.n >= 0 /\ idx.n < Len(cat)
         THEN Ret(DictValues(cat)[idx.n + 1])
         ELSE Ret(<<>>)

\* get_current_source / get_current_output: <<>> stands for None
get_current_source(sd, src) == CurrentAt(sd.io.inputIndex, src)
get_current_output(sd, out) == CurrentAt(sd.io.outputIndex, out)

(***************************************************************************)
(* get_media_info.                                                         *)
(***************************************************************************)
TextTruthy(x) == x # NoText /\ x # ""

RECURSIVE OrChain(_)
\* a or b or ... : the first truthy operand, else the last one
OrChain(xs) ==
    IF Len(xs) = 1 \/ TextTruthy(Head(xs)) THEN Head(xs) ELSE OrChain(Tail(xs))

\* music_state.get("duration", 0), then "if duration > 0": thousandths of a
\* second are kept exact, duration / 1000 is Some(ms) read as ms / 1000
DurationOf(d) ==
    IF d.t = "absent" THEN Ret(NoneVal)
    ELSE IF d.t # "num" THEN Raise("TypeError")
    ELSE IF d.n > 0 THEN Ret(Some(d.n)) ELSE Ret(NoneVal)

\* music_state.get("position", 0), then "if position >= 0"
PositionOf(p) ==
    IF p.t = "absent" THEN Ret(Some(0))
    ELSE IF p.t # "num" THEN Raise("TypeError")
    ELSE IF p.n >= 0 THEN Ret(Some(p.n)) ELSE Ret(NoneVal)

\* get_media_info without its dispatch: both substructures are always tried
FallbackFields(m) ==
    IF m.aik \in {"null", "nullInner"} \/ m.pmk = "null"
    THEN Raise("AttributeError")
    ELSE Ret([title |-> OrChain(<<m.pm.title, m.ai.songName>>),
              artist |-> OrChain(<<m.pm.artist, m.ai.artistName>>),
              album |-> OrChain(<<m.pm.album, m.ai.albumName>>),
              image_url |-> OrChain(<<m.pm.albumArt, m.ai.albumUrl>>)])

\* lines 400-475: title, artist, album, image_url by play type
MediaFields(m) ==
    LET pt == m.playType
        local == pt.t = "num" /\ pt.n \in {4, 6, 7}
        stream == pt.t = "num" /\ pt.n = 5
    IN  IF local
        THEN IF m.aik \in {"null", "nullInner"} THEN Raise("AttributeError")
             ELSE Ret([title |-> m.ai.songName, artist |-> m.ai.artistName,
                       album |-> m.ai.albumName,
                       image_url |-> OrChain(<<m.ai.albumUrl, m.ai.albumArt,
                                               m.ai.artwork, m.ai.coverArt,
                                               m.ai.image, m.ai.thumb>>)])
        ELSE IF stream
        THEN IF m.pmk = "null" THEN Raise("AttributeError")
             ELSE Ret([title |-> m.pm.title, artist |-> m.pm.artist,
                       album |-> m.pm.album,
                       image_url |-> OrChain(<<m.pm.albumArt, m.pm.albumArtBig,
                                               m.pm.artwork, m.pm.image,
                                               m.pm.thumb, m.pm.coverUrl>>)])
        ELSE IF m.aik = "null" \/ m.pmk = "null" THEN Raise("AttributeError")
             ELSE IF m.aik = "nullInner"
                     /\ ~(TextTruthy(m.pm.title) /\ TextTruthy(m.pm.artist)
                          /\ TextTruthy(m.pm.album)
                          /\ TextTruthy(OrChain(<<m.pm.albumArt, m.pm.albumArtBig,
                                                  m.pm.artwork>>)))
             THEN Raise("AttributeError")
             ELSE Ret([title |-> OrChain(<<m.pm.title, m.ai.songName>>),
                       artist |-> OrChain(<<m.pm.artist, m.ai.artistName>>),
                       album |-> OrChain(<<m.pm.album, m.ai.albumName>>),
                       image_url |-> OrChain(<<m.pm.albumArt, m.pm.albumArtBig,
                                               m.pm.artwork, m.ai.albumUrl,
                                               m.ai.albumArt, m.ai.artwork>>)])

\* the info dict from its parts: f the fields by play type, d the duration,
\* p the position, computed in this order
MediaInfoOf(k, f, d, p) ==
    IF k = "null" THEN Raise("AttributeError")
    ELSE IF f.exc # "none" THEN f
    ELSE IF d.exc # "none" THEN d
    ELSE IF p.exc # "none" THEN p
    ELSE Ret([title |-> f.val.title, artist |-> f.val.artist,
              album |-> f.val.album, image_url |-> f.val.image_url,
              media_type |-> "MUSIC", duration |-> d.val,
              position |-> p.val])

get_media_info(sd) ==
    MediaInfoOf(sd.music.k, MediaFields(sd.music), DurationOf(sd.music.duration),
                PositionOf(sd.music.position))

\* x or ""
OrEmpty(x) == IF TextTruthy(x) THEN x ELSE ""

\* int(x) if x else 0, x an optional number of seconds held in thousandths
IntOrZero(x) == IF x.k = "int" /\ x.n # 0 THEN x.n \div 1000 ELSE 0

(***************************************************************************)
(* _notify_entities: the UPDATE events of one tick, in emission order.     *)
(* An entity id is the sequence of its parts; a button id ends with the    *)
(* characters of the lower-cased tag.                                      *)
(***************************************************************************)
\* self.identifier
Ident == "eversolo_192_168_1_50_9529"

media_player_id == <<"media_player", ".", Ident>>
state_sensor_id == <<"sensor", ".", Ident, ".", "state">>
source_sensor_id == <<"sensor", ".", Ident, ".", "source">>
volume_sensor_id == <<"sensor", ".", Ident, ".", "volume">>
display_light_id == <<"light", ".", Ident, ".", "display_brightness">>
knob_light_id == <<"light", ".", Ident, ".", "knob_brightness">>
button_id(output_tag) == <<"button", ".", Ident, ".", "output_">> \o Lower(output_tag)

Update(id, attrs) == [id |-> id, attrs |-> attrs]

\* lines 197-204 (and media_player.py 88-95)
MediaState(state) ==
    IF state \in {"IDLE", "PLAYING", "PAUSED"} THEN state ELSE "STANDBY"

\* the attribute bag from the accessors' results, called in this order:
\* get_volume, get_state, get_media_info, get_muted, get_current_source
MediaPlayerBag(volume, state, media_info, muted, cur, src) ==
    IF volume.exc # "none" THEN Raise(volume.exc)
    ELSE IF state.exc # "none" THEN Raise(state.exc)
    ELSE IF media_info.exc # "none" THEN Raise(media_info.exc)
    ELSE IF muted.exc # "none" THEN Raise(muted.exc)
    ELSE IF cur.exc # "none" THEN Raise(cur.exc)
    ELSE Ret([STATE |-> MediaState(state.val),
              VOLUME |-> IF volume.val.k = "int" THEN volume.val.n ELSE 0,
              MUTED |-> muted.val,
              SOURCE |-> cur.val,
              SOURCE_LIST |-> DictValues(src),
              MEDIA_TITLE |-> OrEmpty(media_info.val.title),
              MEDIA_ARTIST |-> OrEmpty(media_info.val.artist),
              MEDIA_ALBUM |-> OrEmpty(media_info.val.album),
              MEDIA_IMAGE_URL |-> OrEmpty(media_info.val.image_url),
              MEDIA_TYPE |-> OrEmpty(media_info.val.media_type),
              MEDIA_DURATION |-> IntOrZero(media_info.val.duration),
              MEDIA_POSITION |-> IntOrZero(media_info.val.position)])

\* lines 192-220
media_player_attrs(sd, src) ==
    MediaPlayerBag(get_volume(sd), get_state(sd), get_media_info(sd),
                   get_muted(sd), get_current_source(sd, src), src)

StateSensorBag(state) ==
    IF state = "UNKNOWN"
    THEN [STATE |-> "UNAVAILABLE", VALUE |-> "Unknown"]
    ELSE [STATE |-> "ON", VALUE |-> state]

\* lines 223-235
state_sensor_attrs(sd) == StateSensorBag(get_state(sd).val)

SourceSensorBag(current_source) ==
    IF current_source # <<>>
    THEN [STATE |-> "ON", VALUE |-> current_source]
    ELSE [STATE |-> "UNAVAILABLE", VALUE |-> <<"Unknown">>]

\* lines 237-250
source_sensor_attrs(sd, src) == SourceSensorBag(get_current_source(sd, src).val)

VolumeSensorBag(volume) ==
    IF volume.k = "int"
    THEN [STATE |-> "ON", VALUE |-> volume.n, UNIT |-> "%"]
    ELSE [STATE |-> "UNAVAILABLE", VALUE |-> 0, UNIT |-> "%"]

\* lines 252-266
volume_sensor_attrs(sd) == VolumeSensorBag(get_volume(sd).val)

\* int((b / 115) * 255) if b > 0 else 0 (exact for 0..115)
DisplayLightBag(b) ==
    IF b.t = "absent" THEN Ret([BRIGHTNESS |-> 0])
    ELSE IF b.t # "num" THEN Raise("TypeError")
    ELSE IF b.n > 0 THEN Ret([BRIGHTNESS |-> (b.n * 255) \div 115])
    ELSE Ret([BRIGHTNESS |-> 0])

\* lines 268-276
display_light_attrs(sd) == DisplayLightBag(sd.display_brightness)

\* lines 281-287: the stored value as it is, 0 when none is stored
knob_light_attrs(sd) ==
    IF sd.knob_brightness.t = "absent" THEN [BRIGHTNESS |-> Num(0)]
    ELSE [BRIGHTNESS |-> sd.knob_brightness]

\* a plausible slip: the buttons are left out of the notification
NoButtonUpdates(out) == <<>>

\* lines 292-301
button_updates(out) ==
    [i \in 1..Len(out) |-> Update(button_id(out[i].k), [STATE |-> "AVAILABLE"])]

\* the events in emission order, cut at the first exception: mp and dl are
\* the results of building the media player's and the display light's bags,
\* four the events of the media player and the three sensors
Emission(mp, dl, four, rest) ==
    IF mp.exc # "none" THEN [exc |-> mp.exc, emitted |-> <<>>]
    ELSE IF dl.exc # "none" THEN [exc |-> dl.exc, emitted |-> four]
    ELSE [exc |-> "none", emitted |-> four \o rest]

FirstFour(mp, sd, src) ==
    <<Update(media_player_id, mp.val),
      Update(state_sensor_id, state_sensor_attrs(sd)),
      Update(source_sensor_id, source_sensor_attrs(sd, src)),
      Update(volume_sensor_id, volume_sensor_attrs(sd))>>

LightsAndButtons(dl, sd, out) ==
    <<Update(display_light_id, dl.val),
      Update(knob_light_id, knob_light_attrs(sd))>> \o button_updates(out)

NotifyWith(mp, dl, sd, src, out) ==
    Emission(mp, dl, FirstFour(mp, sd, src), LightsAndButtons(dl, sd, out))

\* lines 185-301: [exc, emitted]
notify_entities(sd, src, out) ==
    NotifyWith(media_player_attrs(sd, src), display_light_attrs(sd), sd, src, out)

(***************************************************************************)
(* What the device may answer (the model's input sets).                    *)
(***************************************************************************)
\* the tags the device gives its inputs and outputs, and their names
Tags == [BT |-> <<"B", "T">>, USB |-> <<"U", "S", "B">>,
         RCA |-> <<"R", "C", "A">>, XLR |-> <<"X", "L", "R">>,
         XLRRCA |-> <<"X", "L", "R", "/", "R", "C", "A">>]

DevNames == [BT |-> <<"B", "l", "u", "e">>, USB |-> <<"U", "S", "B">>,
             RCA |-> <<"R", "C", "A">>, XLR |-> <<"X", "L", "R">>,
             XLRRCA |-> <<"X", "L", "R", "/", "R", "C", "A">>]

\* streaming, volume 15 of 30, not muted, MAC in deviceInfo
MusicPlaying ==
    [EmptyMusic EXCEPT !.state = Num(3), !.vd = "obj", !.cur = Num(15),
                       !.max = Num(30), !.mute = "false", !.playType = Num(5),
                       !.pmk = "obj",
                       !.pm = [NoPM EXCEPT !.title = "Pink Pony Club",
                                           !.artist = "Chappell Roan"],
                       !.duration = Num(258000), !.position = Num(0),
                       !.mac = TRUE]

\* paused local file, volume 29 of 100, muted, no MAC
MusicPaused ==
    [EmptyMusic EXCEPT !.state = Num(4), !.vd = "obj", !.cur = Num(29),
                       !.max = Num(100), !.mute = "true", !.playType = Num(4),
                       !.aik = "obj",
                       !.ai = [NoAI EXCEPT !.songName = "Song"],
                       !.duration = Num(0), !.position = Num(1500)]

\* volumeData is JSON null
MusicNullVolume == [EmptyMusic EXCEPT !.state = Num(0), !.vd = "null"]

\* maxVolume is JSON null
MusicNullMax ==
    [EmptyMusic EXCEPT !.state = Num(0), !.vd = "obj", !.cur = Num(5),
                       !.max = JNull]

MusicPayloads == {MusicPlaying, MusicPaused, MusicNullVolume, NullMusic}

\* USB is disabled and comes first; XLR/RCA reports enable as the integer 1
IOUsual ==
    [k |-> "obj",
     inputData |-> <<Entry(Tags.BT, DevNames.BT, "absent"), Entry(Tags.USB, DevNames.USB, "absent")>>,
     outputData |-> <<Entry(Tags.USB, DevNames.USB, "false"), Entry(Tags.RCA, DevNames.RCA, "true"),
                      Entry(Tags.XLRRCA, DevNames.XLRRCA, "1"), Entry(Tags.XLR, DevNames.XLR, "true")>>,
     inputIndex |-> Num(1), outputIndex |-> Num(1)]

\* an input whose tag is JSON null after a good one
IONullTag ==
    [k |-> "obj",
     inputData |-> <<Entry(Tags.BT, DevNames.BT, "absent"),
                     [Entry(<<>>, DevNames.USB, "absent") EXCEPT !.tagNull = TRUE]>>,
     outputData |-> <<Entry(Tags.RCA, DevNames.RCA, "true")>>,
     inputIndex |-> Num(0), outputIndex |-> Num(0)]

\* inputIndex is JSON null
IONullIndex ==
    [k |-> "obj",
     inputData |-> <<Entry(Tags.USB, DevNames.USB, "absent")>>,
     outputData |-> <<Entry(Tags.XLRRCA, DevNames.XLRRCA, "true")>>,
     inputIndex |-> JNull, outputIndex |-> Num(0)]

IOPayloads == {IOUsual, IONullTag, IONullIndex, EmptyIO}

\* how a request can fail (_api_request re-raises all of them)
NetErrors == {"TimeoutError", "ClientError"}

\* a brightness answer: the request's outcome and the currentIndex it holds
BrightReplies ==
    {[net |-> "ClientError", idx |-> JAbsent], [net |-> "ok", idx |-> Num(0)],
     [net |-> "ok", idx |-> Num(58)], [net |-> "ok", idx |-> JStr]}

(***************************************************************************)
(* The stored state as one value.                                          *)
(***************************************************************************)
InitData == [music |-> NoMusic, io |-> NoIO, display_brightness |-> JAbsent,
             knob_brightness |-> JAbsent]

InitSnap == [sd |-> InitData, sources |-> <<>>, source_tags |-> <<>>,
             outputs |-> <<>>, output_tags |-> <<>>]

Cur == [sd |-> state_data, sources |-> sources, source_tags |-> source_tags,
        outputs |-> outputs, output_tags |-> output_tags]

SetCur(c) ==
    /\ state_data' = c.sd
    /\ sources' = c.sources
    /\ source_tags' = c.source_tags
    /\ outputs' = c.outputs
    /\ output_tags' = c.output_tags

(***************************************************************************)
(* poll_device, between its suspension points.                             *)
(***************************************************************************)
\* a plausible slip: the transport state is stored as soon as it arrives
StoreEarly(c, m) == [c EXCEPT !.sd.music = m]

\* lines 155-156: nothing is stored between the two fetches
AfterGetState(c, m) == c

\* lines 160-165, ps and po being what the two parsers built
Stored(c, m, io, ps, po) ==
    IF ~IOTruthy(io)
    THEN [exc |-> "none", snap |-> [c EXCEPT !.sd.music = m]]
    ELSE IF ps.exc # "none"
    THEN [exc |-> ps.exc,
          snap |-> [c EXCEPT !.sd.music = m, !.sd.io = io,
                             !.sources = ps.byTag, !.source_tags = ps.byName]]
    ELSE [exc |-> po.exc,
          snap |-> [c EXCEPT !.sd.music = m, !.sd.io = io,
                             !.sources = ps.byTag, !.source_tags = ps.byName,
                             !.outputs = po.byTag, !.output_tags = po.byName]]

StoreAndParse(c, m, io) == Stored(c, m, io, parse_sources(io), parse_outputs(io))

\* get_display_brightness / get_knob_brightness: JAbsent stands for None
BrightnessOf(reply) ==
    IF reply.net # "ok" THEN JAbsent
    ELSE IF reply.idx.t \in {"absent", "null"} THEN JAbsent
    ELSE reply.idx

\* lines 171-174: a brightness that was fetched replaces the stored one
StoreBrightness(sd, d, k) ==
    [sd EXCEPT !.display_brightness = IF d.t = "absent" THEN @ ELSE d,
               !.knob_brightness = IF k.t = "absent" THEN @ ELSE k]

Finished(c, sd1, n) ==
    [exc |-> n.exc, snap |-> [c EXCEPT !.sd = sd1], emitted |-> n.emitted]

NotifyStored(c, sd1) == Finished(c, sd1, notify_entities(sd1, c.sources, c.outputs))

\* lines 171-179
FinishTick(c, d, k) == NotifyStored(c, StoreBrightness(c.sd, d, k))

\* a plausible slip: "except aiohttp.ClientError" only
CatchesClientErrorOnly(exc) == exc \in {"ClientError"}

\* line 182, "except Exception": every exception the tick can raise is one
PollCatches(exc) ==
    exc \in {"TimeoutError", "ClientError", "ValueError", "AttributeError",
             "TypeError"}

(***************************************************************************)
(* Device commands.  A command gives [ret, raised, requests, url]: ret is  *)
(* "true" or "false" ("none" when the call raised), raised the exception   *)
(* that left it, requests the number of requests it issued and url the     *)
(* last of them: its path, and the tag and the number it carries.          *)
(***************************************************************************)
NoArg == [k |-> "none", n |-> 0, name |-> <<>>]
IntArg(n) == [k |-> "int", n |-> n, name |-> <<>>]
NameArg(name) == [k |-> "name", n |-> 0, name |-> name]
\* a parameter value that int() and float() reject
BadArg == [k |-> "bad", n |-> 0, name |-> <<>>]

Url(path, tag, n) == [n |-> n, tag |-> tag, path |-> path]
NoUrl == Url("", <<>>, 0)

\* try: await self._api_request(...); return True / except Exception: return False
Sent(url, net) ==
    [ret |-> IF net = "ok" THEN "true" ELSE "false", raised |-> "none",
     requests |-> 1, url |-> url]

\* "return False" before any request
NotSent == [ret |-> "false", raised |-> "none", requests |-> 0, url |-> NoUrl]

\* an exception outside the command's try block
Escaped(exc) == [ret |-> "none", raised |-> exc, requests |-> 0, url |-> NoUrl]

power_off(net) == Sent(Url("/ZidooMusicControl/v2/setPowerOption?tag=poweroff", <<>>, 0), net)

\* int((v / 100) * m) in double arithmetic falls one short of the exact
\* floor for these (v, m), 0 <= v <= 100, m among the model's maxVolume
ScaleShort == {<<58, 50>>, <<29, 100>>, <<57, 100>>, <<58, 100>>}

PyScale(v, m) == ((v * m) \div 100) - (IF <<v, m>> \in ScaleShort THEN 1 ELSE 0)

\* lines 502-515: the stored maxVolume is read and the device volume
\* computed before the try block
set_volume(sd, volume, net) ==
    LET m == sd.music IN
    IF m.k = "null" \/ m.vd = "null" THEN Escaped("AttributeError")
    ELSE IF m.vd = "absent" \/ m.max.t = "absent"
    THEN Sent(Url("/ZidooMusicControl/v2/setDevicesVolume?volume=", <<>>,
                  PyScale(volume, 100)), net)
    ELSE IF m.max.t # "num" THEN Escaped("TypeError")
    ELSE Sent(Url("/ZidooMusicControl/v2/setDevicesVolume?volume=", <<>>,
                  PyScale(volume, m.max.n)), net)

volume_up(net) == Sent(Url("/ControlCenter/RemoteControl/sendkey?key=Key.VolumeUp", <<>>, 0), net)
volume_down(net) == Sent(Url("/ControlCenter/RemoteControl/sendkey?key=Key.VolumeDown", <<>>, 0), net)
mute(net) == Sent(Url("/ZidooMusicControl/v2/setMuteVolume?isMute=", <<>>, 1), net)
unmute(net) == Sent(Url("/ZidooMusicControl/v2/setMuteVolume?isMute=", <<>>, 0), net)
play_pause(net) == Sent(Url("/ZidooMusicControl/v2/playOrPause", <<>>, 0), net)
next_track(net) == Sent(Url("/ZidooMusicControl/v2/playNext", <<>>, 0), net)
previous_track(net) == Sent(Url("/ZidooMusicControl/v2/playLast", <<>>, 0), net)

\* position in whole seconds: int(position * 1000) is exact
seek(position, net) ==
    Sent(Url("/ZidooMusicControl/v2/seekTo?time=", <<>>, position * 1000), net)

\* a plausible slip: an unknown name falls back to the first entry
FirstTagDefault(byName, name) ==
    IF DictHas(byName, name) THEN DictGet(byName, name)
    ELSE IF byName # <<>> THEN byName[1].v ELSE <<>>

\* self._source_tags.get(source): <<>> stands for None
TagOf(byName, name) == IF DictHas(byName, name) THEN DictGet(byName, name) ELSE <<>>

\* the body of select_source / select_output once the tag is looked up:
\* list(catalog.keys()).index(tag) raises ValueError inside the try block
SelectTag(path, tag, byTag, net) ==
    IF tag = <<>> THEN NotSent
    ELSE IF ~DictHas(byTag, tag) THEN NotSent
    ELSE Sent(Url(path, tag, DictIndex(byTag, tag) - 1), net)

select_source(c, source, net) ==
    SelectTag("/ZidooMusicControl/v2/setInputList", TagOf(c.source_tags, source),
              c.sources, net)

select_output(c, output, net) ==
    SelectTag("/ZidooMusicControl/v2/setOutInputList", TagOf(c.output_tags, output),
              c.outputs, net)

\* a plausible slip: the brightness is sent as it was asked for
Unclamped(lo, hi, x) == x

\* max(lo, min(hi, x))
Clamp(lo, hi, x) == IF x < lo THEN lo ELSE IF x > hi THEN hi ELSE x

set_display_brightness(brightness, net) ==
    Sent(Url("/SystemSettings/displaySettings/setScreenBrightness?index=", <<>>,
             Clamp(0, 115, brightness)), net)

set_knob_brightness(brightness, net) ==
    Sent(Url("/SystemSettings/displaySettings/setKnobBrightness?index=", <<>>,
             Clamp(0, 255, brightness)), net)

set_vu_mode(index, net) ==
    Sent(Url("/SystemSettings/displaySettings/setVUMode?index=", <<>>, index), net)

set_spectrum_mode(index, net) ==
    Sent(Url("/SystemSettings/displaySettings/setSpPlayModeList?index=", <<>>, index), net)

turn_screen_on(net) == Sent(Url("/ControlCenter/RemoteControl/sendkey?key=Key.Screen.ON", <<>>, 0), net)
turn_screen_off(net) == Sent(Url("/ControlCenter/RemoteControl/sendkey?key=Key.Screen.OFF", <<>>, 0), net)

\* show_spectrum as int(show_spectrum)
cycle_screen_mode(show_spectrum, net) ==
    Sent(Url("/ZidooMusicControl/v2/changVUDisplay?openType=", <<>>, show_spectrum), net)

(***************************************************************************)
(* The connection and the poll tick as processes.                          *)
(*                                                                         *)
(* tick: pc is "idle", the request awaited ("getState", "getIO",           *)
(* "getDisp", "getKnob") or "done"; caller is "sched" (the polling task)   *)
(* or "connect" (establish_connection); music, io, disp are the locals     *)
(* music_state, input_output_state, display_brightness; exc is the         *)
(* exception raised inside the try block and failedAt where; escaped: it   *)
(* left poll_device; emitted: the UPDATE events of this tick; pre: the     *)
(* stored state when the tick began (kept while it has stored nothing).    *)
(* est: pc is "idle", "firstContact", "getModel", "poll", "returned",      *)
(* "raised" or "closing"; polls counts the ticks run to their end inside   *)
(* establish_connection; contact: the first-contact fetch succeeded.       *)
(***************************************************************************)
IdleTick == [pc |-> "idle", caller |-> "none", music |-> NoMusic, io |-> NoIO,
             disp |-> JAbsent, exc |-> "none", failedAt |-> "none",
             escaped |-> FALSE, emitted |-> <<>>, pre |-> InitSnap]

IdleEst == [pc |-> "idle", polls |-> 0, contact |-> FALSE]

\* last: nothing was called since the last poll
NoCall == [layer |-> "none", op |-> "none", arg |-> NoArg, params |-> "none",
           ret |-> "none", raised |-> "none", caught |-> "none",
           requests |-> 0, url |-> NoUrl, devop |-> "none", code |-> "none"]

\* _api_request, lines 124-125: a session is created when there is none
EnsureSession(s) == IF s = "none" THEN "open" ELSE s

TickFree == tick.pc \in {"idle", "done"}

\* poll_device up to its first request
StartedTick(caller) ==
    [IdleTick EXCEPT !.pc = "getState", !.caller = caller, !.pre = Cur]

\* the except clause of poll_device: the tick ends here
Failed(t, where, exc) ==
    [t EXCEPT !.pc = "done", !.exc = exc, !.failedAt = where,
              !.escaped = ~PollCatches(exc), !.disp = JAbsent]

\* the tick is over: establish_connection, when it is the caller, returns
\* the session (or is left by the exception, had one escaped)
EndTick(t) ==
    /\ tick' = t
    /\ est' = IF t.caller # "connect" THEN est
              ELSE IF t.escaped THEN [est EXCEPT !.pc = "raised"]
              ELSE [est EXCEPT !.pc = "returned", !.polls = @ + 1]

PollStart ==
    /\ est.pc = "returned"
    /\ TickFree
    /\ tick' = StartedTick("sched")
    /\ session' = EnsureSession(session)
    /\ UNCHANGED <<macStored, state_data, sources, source_tags, outputs,
                   output_tags, est, last, wire>>

GetStateReply ==
    /\ tick.pc = "getState"
    /\ \/ \E e \in NetErrors :
            /\ EndTick(Failed(tick, "getState", e))
            /\ UNCHANGED <<state_data, sources, source_tags, outputs, output_tags>>
       \/ \E m \in MusicPayloads :
            /\ SetCur(AfterGetState(Cur, m))
            /\ tick' = [tick EXCEPT !.pc = "getIO", !.music = m]
            /\ est' = est
    /\ session' = EnsureSession(session)
    /\ UNCHANGED <<macStored, last, wire>>

\* the tick after lines 160-165 gave r, having fetched io
AfterStore(r, t) ==
    /\ SetCur(r.snap)
    /\ IF r.exc # "none"
       THEN EndTick(Failed(t, "store", r.exc))
       ELSE /\ tick' = [t EXCEPT !.pc = "getDisp"]
            /\ est' = est

GetIOReply ==
    /\ tick.pc = "getIO"
    /\ \/ \E e \in NetErrors :
            /\ EndTick(Failed(tick, "getIO", e))
            /\ UNCHANGED <<state_data, sources, source_tags, outputs, output_tags>>
       \/ \E io \in IOPayloads :
            AfterStore(StoreAndParse(Cur, tick.music, io),
                       [tick EXCEPT !.io = io, !.pre = InitSnap])
    /\ session' = EnsureSession(session)
    /\ UNCHANGED <<macStored, last, wire>>

GetDispReply ==
    /\ tick.pc = "getDisp"
    /\ \E r \in BrightReplies :
         tick' = [tick EXCEPT !.pc = "getKnob", !.disp = BrightnessOf(r)]
    /\ session' = EnsureSession(session)
    /\ UNCHANGED <<macStored, state_data, sources, source_tags, outputs,
                   output_tags, est, last, wire>>

\* the tick after lines 171-179 gave f
AfterFinish(f, t) ==
    /\ SetCur(f.snap)
    /\ IF f.exc # "none"
       THEN EndTick(Failed([t EXCEPT !.emitted = f.emitted], "notify", f.exc))
       ELSE EndTick([t EXCEPT !.pc = "done", !.disp = JAbsent,
                              !.emitted = f.emitted])

GetKnobReply ==
    /\ tick.pc = "getKnob"
    /\ \E r \in BrightReplies :
         AfterFinish(FinishTick(Cur, tick.disp, BrightnessOf(r)),
                     tick)
    /\ UNCHANGED <<session, macStored, last, wire>>

\* a plausible slip: establish_connection returns without the initial poll
SkipInitialPoll(e) == [e EXCEPT !.pc = "returned"]

\* lines 105-108: poll_device is awaited before the session is returned
InitialPoll(e) == [e EXCEPT !.pc = "poll"]

\* the rest of establish_connection once the MAC address is dealt with
BeginInitialPoll ==
    /\ est' = InitialPoll([est EXCEPT !.contact = TRUE])
    /\ tick' = IF est'.pc = "poll" THEN StartedTick("connect") ELSE tick

EstablishStart ==
    /\ est.pc \in {"idle", "raised"}
    /\ TickFree
    /\ est' = [IdleEst EXCEPT !.pc = "firstContact"]
    /\ session' = EnsureSession(session)
    /\ UNCHANGED <<macStored, state_data, sources, source_tags, outputs,
                   output_tags, tick, last, wire>>

\* lines 95-103 and _fetch_and_store_mac_address up to its own request
FirstContactReply ==
    /\ est.pc = "firstContact"
    /\ \/ \E e \in NetErrors :
            /\ est' = [est EXCEPT !.pc = "raised"]
            /\ UNCHANGED <<macStored, tick>>
       \/ \E m \in MusicPayloads :
            IF macStored \/ m.mac
            THEN /\ macStored' = TRUE
                 /\ BeginInitialPoll
            ELSE /\ est' = [est EXCEPT !.pc = "getModel", !.contact = TRUE]
                 /\ UNCHANGED <<macStored, tick>>
    /\ session' = EnsureSession(session)
    /\ UNCHANGED <<state_data, sources, source_tags, outputs, output_tags,
                   last, wire>>

\* get_device_model answered (or failed: it returns None), lines 659-670
DeviceModelReply ==
    /\ est.pc = "getModel"
    /\ \E found \in BOOLEAN : macStored' = found
    /\ BeginInitialPoll
    /\ session' = EnsureSession(session)
    /\ UNCHANGED <<state_data, sources, source_tags, outputs, output_tags,
                   last, wire>>

\* close_connection up to "await self._session.close()"
CloseStart ==
    /\ est.pc = "returned"
    /\ TickFree
    /\ IF session = "none"
       THEN est' = IdleEst /\ session' = session
       ELSE est' = [est EXCEPT !.pc = "closing"] /\ session' = "closing"
    /\ UNCHANGED <<macStored, state_data, sources, source_tags, outputs,
                   output_tags, tick, last, wire>>

\* ... and from there to "self._session = None"
CloseDone ==
    /\ est.pc = "closing"
    /\ est' = IdleEst
    /\ session' = "none"
    /\ UNCHANGED <<macStored, state_data, sources, source_tags, outputs,
                   output_tags, tick, last, wire>>

Init ==
    /\ session = "none"
    /\ macStored = FALSE
    /\ state_data = InitData
    /\ sources = <<>>
    /\ source_tags = <<>>
    /\ outputs = <<>>
    /\ output_tags = <<>>
    /\ est = IdleEst
    /\ tick = IdleTick
    /\ last = NoCall
    /\ wire = NoIO

Next ==
    \/ EstablishStart
    \/ FirstContactReply
    \/ DeviceModelReply
    \/ PollStart
    \/ GetStateReply
    \/ GetIOReply
    \/ GetDispReply
    \/ GetKnobReply
    \/ CloseStart
    \/ CloseDone

Spec == Init /\ [][Next]_vars

(***************************************************************************)
(* The catalog functions over every input/output list up to MaxList        *)
(* entries: the tick stands at its second fetch, and the reply in flight   *)
(* is wire.                                                                *)
(***************************************************************************)
\* a duplicated name (Blue), an entry without a name
InputEntries ==
    {Entry(Tags.BT, DevNames.BT, "absent"), Entry(Tags.USB, DevNames.USB, "absent"),
     Entry(Tags.XLRRCA, DevNames.BT, "absent"), Entry(Tags.RCA, <<>>, "absent")}

\* every enable flag; a duplicated name (RCA); an entry without a name, one
\* whose tag is only a slash, one whose tag is JSON null
OutputEntries ==
    {Entry(Tags.USB, DevNames.USB, "false"), Entry(Tags.RCA, DevNames.RCA, "true"),
     Entry(Tags.XLRRCA, DevNames.XLRRCA, "1"), Entry(Tags.XLR, DevNames.RCA, "true"),
     Entry(Tags.BT, <<>>, "true"), Entry(<<"/">>, DevNames.BT, "true"),
     Entry(Tags.USB, DevNames.USB, "absent"), Entry(Tags.XLR, DevNames.XLR, "0"),
     [Entry(<<>>, DevNames.RCA, "true") EXCEPT !.tagNull = TRUE]}

ListsUpTo(S, n) == UNION {[1..k -> S] : k \in 0..n}

WirePayloads ==
    {[k |-> "obj", inputData |-> ins, outputData |-> outs,
      inputIndex |-> Num(idx), outputIndex |-> Num(idx)] :
        ins \in ListsUpTo(InputEntries, MaxList),
        outs \in ListsUpTo(OutputEntries, MaxList),
        idx \in {0, 1}}

\* connected, nothing stored yet, a tick waiting for the input/output list
InitParse ==
    /\ session = "open"
    /\ macStored = FALSE
    /\ state_data = InitData
    /\ sources = <<>>
    /\ source_tags = <<>>
    /\ outputs = <<>>
    /\ output_tags = <<>>
    /\ est = [pc |-> "returned", polls |-> 1, contact |-> TRUE]
    /\ tick = [StartedTick("sched") EXCEPT !.pc = "getIO", !.music = MusicPlaying]
    /\ last = NoCall
    /\ wire \in WirePayloads

\* the second fetch answers wire: lines 156-165
WireReply ==
    /\ tick.pc = "getIO"
    /\ AfterStore(StoreAndParse(Cur, tick.music, wire),
                  [tick EXCEPT !.io = wire, !.pre = InitSnap])
    /\ UNCHANGED <<session, macStored, last, wire>>

NextParse == WireReply

SpecParse == InitParse /\ [][NextParse]_vars

(***************************************************************************)
(* The media player's handle_command (media_player.py).  params is "none"  *)
(* (None), "empty" ({}), "nokey" (a dict without the command's key) or     *)
(* "has", with val the value under the key.  The result adds to the        *)
(* device command's own: code, the status code returned; devop, the device *)
(* operation invoked; caught, the exception the handler caught.            *)
(***************************************************************************)
\* a plausible slip: the status does not look at what the device returned
StatusIgnoresResult(dev) == "OK"

\* "return StatusCodes.OK if success else StatusCodes.SERVER_ERROR"; an
\* exception of the device operation reaches "except Exception"
StatusOf(dev) ==
    IF dev.raised # "none" THEN "SERVER_ERROR"
    ELSE IF dev.ret = "true" THEN "OK" ELSE "SERVER_ERROR"

\* the device operation devop was awaited and gave dev
Invoked(devop, dev) ==
    [code |-> StatusOf(dev), devop |-> devop, ret |-> dev.ret,
     caught |-> dev.raised, requests |-> dev.requests, url |-> dev.url]

\* a return before any device operation
Returned(code, exc) ==
    [code |-> code, devop |-> "none", ret |-> "none", caught |-> exc,
     requests |-> 0, url |-> NoUrl]

\* "if params and <key> in params"
ParamGiven(params) == params = "has"

\* lines 150-155
MuteToggle(muted, net) ==
    IF muted.exc # "none" THEN Returned("SERVER_ERROR", muted.exc)
    ELSE IF muted.val THEN Invoked("unmute", unmute(net))
    ELSE Invoked("mute", mute(net))

\* lines 131-199
handle_command(c, cmd_id, params, val, net) ==
    CASE cmd_id = "off" -> Invoked("power_off", power_off(net))
      [] cmd_id = "volume" ->
            IF ~ParamGiven(params) THEN Returned("BAD_REQUEST", "none")
            ELSE IF val.k # "int" THEN Returned("SERVER_ERROR", "ValueError")
            ELSE Invoked("set_volume", set_volume(c.sd, val.n, net))
      [] cmd_id = "volume_up" -> Invoked("volume_up", volume_up(net))
      [] cmd_id = "volume_down" -> Invoked("volume_down", volume_down(net))
      [] cmd_id = "mute_toggle" -> MuteToggle(get_muted(c.sd), net)
      [] cmd_id = "mute" -> Invoked("mute", mute(net))
      [] cmd_id = "unmute" -> Invoked("unmute", unmute(net))
      [] cmd_id = "play_pause" -> Invoked("play_pause", play_pause(net))
      [] cmd_id = "next" -> Invoked("next_track", next_track(net))
      [] cmd_id = "previous" -> Invoked("previous_track", previous_track(net))
      [] cmd_id = "seek" ->
            IF ~ParamGiven(params) THEN Returned("BAD_REQUEST", "none")
            ELSE IF val.k # "int" THEN Returned("SERVER_ERROR", "ValueError")
            ELSE Invoked("seek", seek(val.n, net))
      [] cmd_id = "select_source" ->
            IF ~ParamGiven(params) THEN Returned("BAD_REQUEST", "none")
            ELSE Invoked("select_source", select_source(c, val.name, net))
      [] cmd_id = "select_sound_mode" ->
            IF ~ParamGiven(params) THEN Returned("BAD_REQUEST", "none")
            ELSE Invoked("select_output", select_output(c, val.name, net))
      [] OTHER -> Returned("NOT_IMPLEMENTED", "none")

(***************************************************************************)
(* Commands between polls: a poll tick as one step, the device's commands  *)
(* and the media player's handler.                                         *)
(***************************************************************************)
\* a request of a command succeeds or fails
CmdNets == {"ok", "ClientError"}

Volumes == {50, 58}
Positions == {0, 30}
NameUnknown == <<"T", "V">>
Names == {DevNames.BT, DevNames.USB, DevNames.RCA, NameUnknown}

\* the device command op(arg) over stored state c
DeviceResult(c, op, arg, net) ==
    CASE op = "power_off" -> power_off(net)
      [] op = "set_volume" -> set_volume(c.sd, arg.n, net)
      [] op = "volume_up" -> volume_up(net)
      [] op = "volume_down" -> volume_down(net)
      [] op = "mute" -> mute(net)
      [] op = "unmute" -> unmute(net)
      [] op = "play_pause" -> play_pause(net)
      [] op = "next_track" -> next_track(net)
      [] op = "previous_track" -> previous_track(net)
      [] op = "seek" -> seek(arg.n, net)
      [] op = "select_source" -> select_source(c, arg.name, net)
      [] op = "select_output" -> select_output(c, arg.name, net)
      [] op = "set_display_brightness" -> set_display_brightness(arg.n, net)
      [] op = "set_knob_brightness" -> set_knob_brightness(arg.n, net)
      [] op = "set_vu_mode" -> set_vu_mode(arg.n, net)
      [] op = "set_spectrum_mode" -> set_spectrum_mode(arg.n, net)
      [] op = "turn_screen_on" -> turn_screen_on(net)
      [] op = "turn_screen_off" -> turn_screen_off(net)
      [] op = "cycle_screen_mode" -> cycle_screen_mode(arg.n, net)

\* _api_request creates the session a request finds missing
SessionAfter(requests) == IF requests > 0 THEN EnsureSession(session) ELSE session

\* the device command op(arg) was called and gave r
DeviceCalled(op, arg, r) ==
    /\ last' = [NoCall EXCEPT !.layer = "device", !.op = op, !.arg = arg,
                              !.ret = r.ret, !.raised = r.raised,
                              !.requests = r.requests, !.url = r.url]
    /\ session' = SessionAfter(r.requests)
    /\ UNCHANGED <<macStored, state_data, sources, source_tags, outputs,
                   output_tags, est, tick, wire>>

KeyCommands ==
    {"power_off", "volume_up", "volume_down", "mute", "unmute", "play_pause",
     "next_track", "previous_track", "turn_screen_on", "turn_screen_off"}

\* the commands that take nothing and read nothing
DeviceKeyCommand ==
    \E op \in KeyCommands, net \in CmdNets :
       DeviceCalled(op, NoArg, DeviceResult(Cur, op, NoArg, net))

DeviceSetVolume ==
    \E v \in Volumes, net \in CmdNets :
       DeviceCalled("set_volume", IntArg(v), set_volume(state_data, v, net))

DeviceSeek ==
    \E pos \in Positions, net \in CmdNets :
       DeviceCalled("seek", IntArg(pos), seek(pos, net))

DeviceSelectSource ==
    \E name \in Names, net \in CmdNets :
       DeviceCalled("select_source", NameArg(name), select_source(Cur, name, net))

DeviceSelectOutput ==
    \E name \in Names, net \in CmdNets :
       DeviceCalled("select_output", NameArg(name), select_output(Cur, name, net))

Settings ==
    {<<"set_display_brightness", -5>>, <<"set_display_brightness", 58>>,
     <<"set_display_brightness", 200>>, <<"set_knob_brightness", 300>>,
     <<"set_knob_brightness", 128>>, <<"set_vu_mode", 1>>,
     <<"set_spectrum_mode", 2>>, <<"cycle_screen_mode", 0>>,
     <<"cycle_screen_mode", 1>>}

\* the brightness and display-mode setters
DeviceSetting ==
    \E st \in Settings, net \in CmdNets :
       DeviceCalled(st[1], IntArg(st[2]),
                    DeviceResult(Cur, st[1], IntArg(st[2]), net))

NeedsParam == {"volume", "seek", "select_source", "select_sound_mode"}

Handled ==
    {"off", "volume", "volume_up", "volume_down", "mute_toggle", "mute",
     "unmute", "play_pause", "next", "previous", "seek", "select_source",
     "select_sound_mode"}

\* the command identifiers the remote sends: the handled ones and two more
CommandIds == Handled \cup {"on", "stop"}

\* the values a command's parameter is given
ParamValues(cmd_id) ==
    CASE cmd_id = "volume" -> {IntArg(v) : v \in Volumes} \cup {BadArg}
      [] cmd_id = "seek" -> {IntArg(pos) : pos \in Positions} \cup {BadArg}
      [] cmd_id \in {"select_source", "select_sound_mode"} ->
            {NameArg(name) : name \in Names}
      [] OTHER -> {NoArg}

\* handle_command(cmd_id, params) was called and gave r
MediaPlayerCalled(cmd_id, params, val, r) ==
    /\ last' = [NoCall EXCEPT !.layer = "media_player", !.op = cmd_id,
                              !.arg = val, !.params = params, !.ret = r.ret,
                              !.caught = r.caught, !.requests = r.requests,
                              !.url = r.url, !.devop = r.devop, !.code = r.code]
    /\ session' = SessionAfter(r.requests)
    /\ UNCHANGED <<macStored, state_data, sources, source_tags, outputs,
                   output_tags, est, tick, wire>>

\* a command of the remote that carries its parameter (or needs none)
HandleCommand ==
    \E cmd_id \in CommandIds, net \in CmdNets :
       \E val \in ParamValues(cmd_id) :
          MediaPlayerCalled(cmd_id, IF val = NoArg THEN "none" ELSE "has", val,
                            handle_command(Cur, cmd_id,
                                           IF val = NoArg THEN "none" ELSE "has",
                                           val, net))

\* a command of the remote whose parameter is missing
HandleCommandWithout ==
    \E cmd_id \in NeedsParam, params \in {"none", "empty", "nokey"},
       net \in CmdNets :
       MediaPlayerCalled(cmd_id, params, NoArg,
                         handle_command(Cur, cmd_id, params, NoArg, net))

\* what a tick leaves stored: lines 160-179
TickStores(r, d, k) ==
    IF r.exc # "none" THEN r.snap ELSE FinishTick(r.snap, d, k).snap

\* a whole poll tick whose two fetches succeeded
PollTick ==
    /\ \E m \in MusicPayloads \cup {MusicNullMax}, io \in IOPayloads,
          b \in BrightReplies :
          SetCur(TickStores(StoreAndParse(Cur, m, io), BrightnessOf(b),
                            BrightnessOf(b)))
    /\ last' = NoCall
    /\ session' = EnsureSession(session)
    /\ UNCHANGED <<macStored, est, tick, wire>>

NextCmd ==
    \/ PollTick
    \/ DeviceKeyCommand
    \/ DeviceSetVolume
    \/ DeviceSeek
    \/ DeviceSelectSource
    \/ DeviceSelectOutput
    \/ DeviceSetting
    \/ HandleCommand
    \/ HandleCommandWithout

SpecCmd == Init /\ [][NextCmd]_vars

(***************************************************************************)
(* Properties of the commands.                                             *)
(***************************************************************************)
\* C8: select_source with a name that no source of the catalog bears
\* returns false without a request; so does select_output with the outputs
C8_UnknownNameNoRequest ==
    /\ last.layer = "device" /\ last.op = "select_source"
         /\ last.arg.name \notin ValueSet(sources)
       => last.ret = "false" /\ last.requests = 0 /\ last.raised = "none"
    /\ last.layer = "device" /\ last.op = "select_output"
         /\ last.arg.name \notin ValueSet(outputs)
       => last.ret = "false" /\ last.requests = 0 /\ last.raised = "none"

\* select_output was given the name of an output the device reports but
\* has disabled, over a catalog that holds other outputs
C8_Witness ==
    /\ last.layer = "device"
    /\ last.op = "select_output"
    /\ last.arg.name = DevNames.USB
    /\ outputs # <<>>
    /\ last.arg.name \notin ValueSet(outputs)
    /\ last.ret = "false"

\* C9: a device command returns true or false and never raises, whatever
\* the network does and whatever the stored snapshot holds
C9_CommandsNeverRaise ==
    last.layer = "device" => last.raised = "none" /\ last.ret \in {"true", "false"}

StatusCodes == {"OK", "BAD_REQUEST", "NOT_IMPLEMENTED", "SERVER_ERROR"}

ParamMissing == last.op \in NeedsParam /\ last.params # "has"

\* C10: handle_command returns one of the four codes and never raises: OK
\* exactly when the device operation it invoked returned true,
\* SERVER_ERROR when that operation returned false or an exception
\* occurred, BAD_REQUEST (and no device operation) exactly when a command
\* that needs a parameter comes without it, NOT_IMPLEMENTED exactly for
\* the other command identifiers
C10_HandlerStatus ==
    last.layer = "media_player" =>
        /\ last.code \in StatusCodes
        /\ last.raised = "none"
        /\ last.code = "OK" <=> last.devop # "none" /\ last.ret = "true"
        /\ last.ret = "false" \/ last.caught # "none" => last.code = "SERVER_ERROR"
        /\ last.code = "BAD_REQUEST" <=> ParamMissing
        /\ ParamMissing => last.devop = "none" /\ last.requests = 0
        /\ last.code = "NOT_IMPLEMENTED" <=> last.op \notin Handled
        /\ last.code = "SERVER_ERROR" =>
              last.ret = "false" \/ last.caught # "none"

\* the handler caught what set_volume raised over a snapshot without
\* volume data
C10_Witness ==
    /\ last.layer = "media_player"
    /\ last.op = "volume"
    /\ last.devop = "set_volume"
    /\ last.caught \in {"AttributeError", "TypeError"}
    /\ last.code = "SERVER_ERROR"

\* media_player.py 41-60: the features the media player declares
Features ==
    {"on_off", "volume", "volume_up_down", "mute_toggle", "mute", "unmute",
     "play_pause", "next", "previous", "seek", "media_title", "media_artist",
     "media_album", "media_duration", "media_position", "media_image_url",
     "media_type", "select_source"}

\* the commands that belong to a feature: on and off to on_off, volume_up
\* and volume_down to volume_up_down, none to a feature that only announces
\* an attribute, and to every other feature the command of its name
CommandsOf(feature) ==
    CASE feature = "on_off" -> {"on", "off"}
      [] feature = "volume_up_down" -> {"volume_up", "volume_down"}
      [] feature \in {"media_title", "media_artist", "media_album",
                      "media_duration", "media_position", "media_image_url",
                      "media_type"} -> {}
      [] OTHER -> {feature}

DeclaredCommands == UNION {CommandsOf(feature) : feature \in Features}

\* C28: every command of a declared feature is dispatched to a device
\* operation: handle_command returns NOT_IMPLEMENTED only for a command
\* outside the declared features, a declared command that carries what it
\* needs and meets no exception invokes a device operation, and the ON
\* command invokes power_on.
C28_DeclaredCommandsDispatched ==
    last.layer = "media_player" =>
        /\ last.code = "NOT_IMPLEMENTED" => last.op \notin DeclaredCommands
        /\ (last.op \in DeclaredCommands /\ ~ParamMissing /\ last.caught = "none")
              => last.devop # "none"
        /\ last.op = "on" => last.devop = "power_on"

\* the ON command was handled over a populated catalog: no device
\* operation, no request, NOT_IMPLEMENTED
C28_Witness ==
    /\ last.layer = "media_player"
    /\ last.op = "on"
    /\ last.op \in DeclaredCommands
    /\ last.devop = "none"
    /\ last.requests = 0
    /\ last.code = "NOT_IMPLEMENTED"
    /\ sources # <<>>

(***************************************************************************)
(* Properties of the catalogs.                                             *)
(***************************************************************************)
\* the catalogs were rebuilt from wire (to the end when Rebuilt)
Parsed == tick.pc \in {"getDisp", "done"} /\ tick.io = wire
Rebuilt == Parsed /\ tick.exc = "none"

\* the entries of a device list that are well formed: a tag that is not
\* empty once its slashes are removed, and a name
WellFormed(list) ==
    {i \in 1..Len(list) : /\ ~list[i].tagNull
                          /\ StripSlash(list[i].tag) # <<>>
                          /\ list[i].name # <<>>}

BooleanTrue(list) == {i \in WellFormed(list) : list[i].enable = "true"}

\* C5: the rebuilt output catalog holds only entries whose enable is the
\* boolean true (with a tag and a name), and all of them when the rebuild
\* ran to its end; an entry with enable 1, false, 0 or absent adds nothing
C5_OnlyBooleanTrueOutputs ==
    Parsed =>
        /\ \A j \in 1..Len(outputs) :
              \E i \in BooleanTrue(wire.outputData) :
                 /\ StripSlash(wire.outputData[i].tag) = outputs[j].k
                 /\ wire.outputData[i].name = outputs[j].v
        /\ Rebuilt =>
              \A i \in BooleanTrue(wire.outputData) :
                 DictHas(outputs, StripSlash(wire.outputData[i].tag))

\* a list with an output enabled by the integer 1 and one enabled by true
C5_Witness ==
    /\ Rebuilt
    /\ \E i \in 1..Len(wire.outputData) : wire.outputData[i].enable = "1"
    /\ Len(wire.outputData) = 2
    /\ Len(outputs) = 1

\* every entry of catalog cat stands where the device's list has it
SamePositions(cat, list) ==
    \A j \in 1..Len(cat) :
       /\ j <= Len(list)
       /\ ~list[j].tagNull
       /\ StripSlash(list[j].tag) = cat[j].k
       /\ list[j].name = cat[j].v

\* the accessor gives the name of the entry the device's index points at,
\* when that entry is one the catalog keeps
ReadsDeviceEntry(current, idx, list, kept) ==
    idx.n + 1 \in kept => current.val = list[idx.n + 1].name

\* C6: an entry kept in a catalog has the position it has in the device's
\* list, so that get_current_source / get_current_output read, and
\* select_source / select_output send, the device's own index
C6_CatalogPositionIsDevicePosition ==
    Rebuilt =>
        /\ SamePositions(sources, wire.inputData)
        /\ SamePositions(outputs, wire.outputData)
        /\ ReadsDeviceEntry(get_current_source(state_data, sources),
                            wire.inputIndex, wire.inputData,
                            WellFormed(wire.inputData))
        /\ ReadsDeviceEntry(get_current_output(state_data, outputs),
                            wire.outputIndex, wire.outputData,
                            BooleanTrue(wire.outputData))

\* the two maps of a catalog are inverse to each other
InverseMaps(byTag, byName) ==
    /\ Len(byTag) = Len(byName)
    /\ \A j \in 1..Len(byTag) :
          /\ DictHas(byName, byTag[j].v)
          /\ DictGet(byName, byTag[j].v) = byTag[j].k

\* C7: after a poll the tag-to-name and the name-to-tag map of each catalog
\* are inverse bijections
C7_InverseBijections ==
    Parsed => /\ InverseMaps(sources, source_tags)
              /\ InverseMaps(outputs, output_tags)

(***************************************************************************)
(* Properties of the poll tick and of the connection.                      *)
(***************************************************************************)
\* the tick is over and it was one of its first two fetches that failed
FetchFailed == tick.pc = "done" /\ tick.failedAt \in {"getState", "getIO"}

\* C1: a tick whose transport-state fetch or input/output-list fetch failed
\* leaves the raw snapshot and both catalogs as they were when it began, and
\* emits no notification
C1_FailedFetchLeavesState ==
    FetchFailed => Cur = tick.pre /\ tick.emitted = <<>>

\* the second fetch failed after a first one that brought a new transport
\* state, over a state that earlier ticks had filled
C1_Witness ==
    /\ FetchFailed
    /\ tick.failedAt = "getIO"
    /\ tick.pre.sd.music # NoMusic
    /\ tick.music # tick.pre.sd.music
    /\ tick.pre.outputs # <<>>

\* C2: no exception leaves poll_device, whether raised by a fetch, by the
\* rebuilding of the catalogs or by the notification of the entities; so
\* establish_connection is left by an exception only when its own
\* first-contact fetch failed, never by its poll tick
C2_PollNeverRaises ==
    /\ ~tick.escaped
    /\ est.pc = "raised" => ~est.contact

\* a tick ended by an exception that is not a network error: raised while
\* the catalogs were rebuilt or while the entities were notified
C2_Witness ==
    /\ tick.pc = "done"
    /\ tick.failedAt \in {"store", "notify"}
    /\ tick.exc \in {"AttributeError", "TypeError"}

\* C3: establish_connection returns only after one poll tick has run inside
\* it, and that tick runs after the first-contact fetch succeeded and before
\* the call returns
C3_InitialPollBeforeReturn ==
    /\ est.pc = "returned" => est.polls = 1 /\ est.contact
    /\ tick.caller = "connect" /\ ~TickFree => est.pc = "poll" /\ est.contact

\* establish_connection has just returned: the last tick is the one it ran
C3_Witness ==
    /\ est.pc = "returned"
    /\ tick.caller = "connect"
    /\ tick.pc = "done"
    /\ tick.exc = "none"

\* the tick is over and nothing was raised in it
TickSucceeded == tick.pc = "done" /\ tick.exc = "none"

\* the ids a successful tick is to notify, the buttons in catalog order
ExpectedIds ==
    <<media_player_id, state_sensor_id, source_sensor_id, volume_sensor_id,
      display_light_id, knob_light_id>>
    \o [i \in 1..Len(outputs) |-> button_id(outputs[i].k)]

StateCodes ==
    {Num(n) : n \in {-1, 0, 1, 2, 3, 4, 5, 99}} \cup {JAbsent, JNull, JStr}

StateSnapshots ==
    {[EmptyMusic EXCEPT !.state = s] : s \in StateCodes}
        \cup {NoMusic, NullMusic}

\* a call of an accessor and its result
Read(op, out) == [layer |-> "accessor", op |-> op, out |-> out]

ReadState == last' = Read("get_state", get_state(state_data))

\* maxVolume of the devices modelled (the tables PctShort and ScaleShort
\* are complete for these)
VolumeMaxima == {30, 50, 100}

VolumeSnapshot(c, m) == [EmptyMusic EXCEPT !.vd = "obj", !.cur = c, !.max = m]

VolumeSnapshots ==
    UNION {{VolumeSnapshot(Num(c), Num(m)) : c \in 0..m} : m \in VolumeMaxima}
        \cup {VolumeSnapshot(c, m) : c \in {JAbsent, JNull, Num(10)},
                                     m \in {JAbsent, JNull, Num(0), Num(-1), Num(50)}}
        \cup {[EmptyMusic EXCEPT !.vd = "null"]}

\* playingMusic and everSoloPlayAudioInfo: complete, and with an empty and
\* a missing field
StreamTexts ==
    {[NoPM EXCEPT !.title = "Pink Pony Club", !.artist = "Chappell Roan",
                  !.album = "Midwest Princess"],
     [NoPM EXCEPT !.title = "Pink Pony Club", !.artist = ""],
     NoPM}

LocalTexts ==
    {[NoAI EXCEPT !.songName = "Local Song", !.artistName = "Local Artist",
                  !.albumName = "Local Album"],
     [NoAI EXCEPT !.songName = "", !.artistName = "Local Artist"],
     NoAI}

PlayTypes == {Num(n) : n \in {0, 4, 5, 6, 7, 99}} \cup {JAbsent, JNull}

Durations == {JAbsent, Num(0), Num(258000)}

PositionFields == {JAbsent, Num(0), Num(1500), Num(-1)}

MediaSnapshots ==
    {[EmptyMusic EXCEPT !.playType = pt, !.pmk = pm[1], !.pm = pm[2],
                        !.aik = ai[1], !.ai = ai[2], !.duration = d,
                        !.position = p] :
        pt \in PlayTypes,
        pm \in ({"obj"} \X StreamTexts) \cup {<<"absent", NoPM>>, <<"null", NoPM>>},
        ai \in ({"obj"} \X LocalTexts)
                \cup {<<"absent", NoAI>>, <<"null", NoAI>>, <<"nullInner", NoAI>>},
        d \in Durations, p \in PositionFields}

ReadSnapshots == StateSnapshots \cup VolumeSnapshots \cup MediaSnapshots

InitRead ==
    /\ session = "open"
    /\ macStored = FALSE
    /\ state_data \in {[InitData EXCEPT !.music = m] : m \in ReadSnapshots}
    /\ sources = <<>>
    /\ source_tags = <<>>
    /\ outputs = <<>>
    /\ output_tags = <<>>
    /\ est = [IdleEst EXCEPT !.pc = "returned", !.polls = 1, !.contact = TRUE]
    /\ tick = IdleTick
    /\ last = NoCall
    /\ wire = NoIO

ReadVolume == last' = Read("get_volume", get_volume(state_data))

ReadMediaInfo == last' = Read("get_media_info", get_media_info(state_data))

NextRead ==
    /\ \/ ReadState
       \/ ReadVolume
       \/ ReadMediaInfo
    /\ UNCHANGED <<session, macStored, state_data, sources, source_tags,
                   outputs, output_tags, est, tick, wire>>

SpecRead == InitRead /\ [][NextRead]_vars

\* C11: get_state gives IDLE for code 0, PLAYING for code 3, PAUSED for
\* code 4, and UNKNOWN for every other code, for a missing or non-numeric
\* code and for an empty or not yet stored snapshot.
C11_StateTable ==
    (last.op = "get_state" /\ state_data.music.k # "null") =>
        LET code == state_data.music.state
            known == code.t = "num" /\ code.n \in {0, 3, 4}
        IN  /\ last.out.exc = "none"
            /\ (code = Num(0)) => last.out.val = "IDLE"
            /\ (code = Num(3)) => last.out.val = "PLAYING"
            /\ (code = Num(4)) => last.out.val = "PAUSED"
            /\ ~known => last.out.val = "UNKNOWN"
            /\ state_data.music \in {EmptyMusic, NoMusic}
                    => last.out.val = "UNKNOWN"

\* code 4 is read as PAUSED, and code 99 as UNKNOWN
C11_Witness ==
    /\ last.op = "get_state"
    /\ state_data.music.state \in {Num(4), Num(99)}
    /\ last.out.val \in {"PAUSED", "UNKNOWN"}
    /\ (state_data.music.state = Num(4)) = (last.out.val = "PAUSED")

\* C12: for a snapshot with current volume c and maximum m, m > 0 and
\* 0 <= c <= m, get_volume returns floor(c * 100 / m), a value in 0..100;
\* when the current volume is missing or the maximum is missing or not
\* positive it returns None.
C12_VolumeIsFloor ==
    LET m == state_data.music IN
    (last.op = "get_volume" /\ m.k = "obj" /\ m.vd = "obj") =>
        /\ (m.cur.t = "num" /\ m.max.t = "num" /\ m.max.n > 0
                /\ 0 <= m.cur.n /\ m.cur.n <= m.max.n)
              => /\ last.out = Ret(Some((m.cur.n * 100) \div m.max.n))
                 /\ last.out.val.n \in 0..100
        /\ (m.cur.t \in {"absent", "null"} \/ m.max.t \in {"absent", "null"}
                \/ (m.max.t = "num" /\ m.max.n <= 0))
              => last.out = Ret(NoneVal)


(***************************************************************************)
(* Fifth specification: a volume command, the device and the next poll.    *)
(* wire is the device: its maxVolume, its native volume, and the number of *)
(* volume commands the remote has issued so far.                           *)
(***************************************************************************)
\* volume commands in one behaviour
MaxCommands == 1

\* the getState reply of a device at native volume n of max
DeviceReply(max, n) == VolumeSnapshot(Num(n), Num(max))

InitVolume ==
    /\ session = "open"
    /\ macStored = FALSE
    /\ \E max \in VolumeMaxima :
          /\ state_data = [InitData EXCEPT !.music = DeviceReply(max, 0)]
          /\ wire = [max |-> max, volume |-> 0, commands |-> 0]
    /\ sources = <<>>
    /\ source_tags = <<>>
    /\ outputs = <<>>
    /\ output_tags = <<>>
    /\ est = [IdleEst EXCEPT !.pc = "returned", !.polls = 1, !.contact = TRUE]
    /\ tick = IdleTick
    /\ last = NoCall

\* handle_command(VOLUME, {"volume": v}) was called and gave r
VolumeCalled(v, r) ==
    /\ last' = [NoCall EXCEPT !.layer = "media_player", !.op = "volume",
                              !.arg = IntArg(v), !.params = "has",
                              !.ret = r.ret, !.caught = r.caught,
                              !.requests = r.requests, !.url = r.url,
                              !.devop = r.devop, !.code = r.code]
    /\ session' = SessionAfter(r.requests)
    /\ wire' = [wire EXCEPT !.commands = @ + 1]
    /\ UNCHANGED <<macStored, state_data, sources, source_tags, outputs,
                   output_tags, est, tick>>

VolumeCommand ==
    /\ wire.commands < MaxCommands
    /\ \E v \in 0..100, net \in CmdNets :
          VolumeCalled(v, handle_command(Cur, "volume", "has", IntArg(v), net))

\* the device takes the native volume of the request it answered
DeviceApplies ==
    /\ last.op = "volume"
    /\ last.code = "OK"
    /\ wire' = [wire EXCEPT !.volume = last.url.n]
    /\ UNCHANGED <<session, macStored, state_data, sources, source_tags,
                   outputs, output_tags, est, tick, last>>

\* a tick that fetched m and ran to its end with f
VolumePolled(m, f) ==
    /\ SetCur(f.snap)
    /\ tick' = [StartedTick("sched") EXCEPT !.pc = "done", !.music = m,
                                            !.io = IOUsual, !.exc = f.exc,
                                            !.emitted = f.emitted]
    /\ session' = EnsureSession(session)
    /\ UNCHANGED <<macStored, est, last, wire>>

\* a whole poll tick of the device as it is now
PollVolume ==
    \E b \in BrightReplies :
       VolumePolled(DeviceReply(wire.max, wire.volume),
                    FinishTick(StoreAndParse(Cur, DeviceReply(wire.max, wire.volume),
                                             IOUsual).snap,
                               BrightnessOf(b), BrightnessOf(b)))

\* a tick whose first fetch fails
PollVolumeFails ==
    /\ \E exc \in NetErrors : tick' = Failed(StartedTick("sched"), "getState", exc)
    /\ session' = EnsureSession(session)
    /\ UNCHANGED <<macStored, state_data, sources, source_tags, outputs,
                   output_tags, est, last, wire>>

NextVolume ==
    \/ VolumeCommand
    \/ DeviceApplies
    \/ PollVolume
    \/ PollVolumeFails

SpecVolume == InitVolume /\ [][NextVolume]_vars

\* the volume command returned OK, the device holds the native volume the
\* request carried, and the last tick fetched that state and succeeded
RoundTripDone ==
    /\ last.op = "volume"
    /\ last.code = "OK"
    /\ wire.volume = last.url.n
    /\ tick.pc = "done"
    /\ tick.exc = "none"
    /\ tick.music = DeviceReply(wire.max, wire.volume)

\* C13: for every requested volume v in 0..100 and every device maximum,
\* once the volume command has returned OK, the device has applied the
\* native volume it was sent and a poll has succeeded, get_volume and the
\* media player's VOLUME attribute equal v.
C13_VolumeRoundTrip ==
    RoundTripDone =>
        /\ get_volume(state_data) = Ret(Some(last.arg.n))
        /\ tick.emitted[1].attrs.VOLUME = last.arg.n

\* a round trip on a device whose scale is 0..100: 29 was requested, 28 was
\* sent and 28 is read back
C13_Witness ==
    /\ RoundTripDone
    /\ wire.max = 100
    /\ last.arg.n = 29
    /\ wire.volume = 28
    /\ get_volume(state_data) = Ret(Some(28))

\* C14: get_media_info gives no duration for a snapshot whose duration is
\* 0 and a position of 0 for a snapshot whose position is 0; a snapshot
\* without a position field gives no position.
C14_ZeroPositionIsNotMissing ==
    (last.op = "get_media_info" /\ last.out.exc = "none") =>
        /\ (state_data.music.duration = Num(0))
              => last.out.val.duration = NoneVal
        /\ (state_data.music.position = Num(0))
              => last.out.val.position = Some(0)
        /\ (state_data.music.position = JAbsent)
              => last.out.val.position = NoneVal

\* a snapshot with duration 0 and position 0: no duration, position 0
C14_Witness ==
    /\ last.op = "get_media_info"
    /\ last.out.exc = "none"
    /\ state_data.music.duration = Num(0)
    /\ state_data.music.position = Num(0)
    /\ last.out.val.duration = NoneVal
    /\ last.out.val.position = Some(0)

\* the title, artist and album of an info dict
TextsOf(info) == <<info.title, info.artist, info.album>>

\* a or b
Preferring(a, b) == IF TextTruthy(a) THEN a ELSE b

\* C15: for play type 5 the title, artist and album are those of
\* playingMusic and nothing comes from everSoloPlayAudioInfo; for play
\* types 4, 6 and 7 they are those of everSoloPlayAudioInfo and nothing
\* comes from playingMusic; for any other or missing play type each is the
\* playingMusic value when that is non-empty and the everSoloPlayAudioInfo
\* value otherwise.
C15_DispatchOnPlayType ==
    (last.op = "get_media_info" /\ last.out.exc = "none") =>
        LET m == state_data.music
            pt == m.playType
            stream == <<m.pm.title, m.pm.artist, m.pm.album>>
            local == <<m.ai.songName, m.ai.artistName, m.ai.albumName>>
        IN  /\ (pt = Num(5)) => TextsOf(last.out.val) = stream
            /\ (pt \in {Num(4), Num(6), Num(7)})
                  => TextsOf(last.out.val) = local
            /\ (pt \notin {Num(4), Num(5), Num(6), Num(7)})
                  => TextsOf(last.out.val)
                        = [i \in 1..3 |-> Preferring(stream[i], local[i])]

\* play type 5 with an empty artist in playingMusic and a full local
\* record: the artist stays empty; and an unknown play type over the same
\* snapshot takes the local artist
C15_Witness ==
    /\ last.op = "get_media_info"
    /\ last.out.exc = "none"
    /\ state_data.music.pm.title = "Pink Pony Club"
    /\ state_data.music.pm.artist = ""
    /\ state_data.music.ai.artistName = "Local Artist"
    /\ \/ /\ state_data.music.playType = Num(5)
          /\ last.out.val.artist = ""
       \/ /\ state_data.music.playType = Num(99)
          /\ last.out.val.artist = "Local Artist"


(***************************************************************************)
(* Sixth specification: the output buttons (output_buttons.py) pressed     *)
(* over the output catalog a poll has built.                               *)
(***************************************************************************)
\* str.upper() on one character (the letters the model's names use)
UpperChar(c) ==
    CASE c = "a" -> "A" [] c = "b" -> "B" [] c = "c" -> "C" [] c = "e" -> "E"
      [] c = "l" -> "L" [] c = "r" -> "R" [] c = "u" -> "U" [] c = "x" -> "X"
      [] OTHER -> c

\* str.upper()
Upper(s) == [i \in 1..Len(s) |-> UpperChar(s[i])]

\* a in b, for strings
Contains(a, b) ==
    \E i \in 0..(Len(b) - Len(a)) : SubSeq(b, i + 1, i + Len(a)) = a

\* driver.py, all_outputs: the tag and the display name of each button
OutputButtons ==
    {[tag |-> <<"r", "c", "a">>, name |-> <<"R", "C", "A">>],
     [tag |-> <<"x", "l", "r">>, name |-> <<"X", "L", "R">>],
     [tag |-> <<"h", "d", "m", "i">>, name |-> <<"H", "D", "M", "I">>],
     [tag |-> <<"u", "s", "b">>, name |-> <<"U", "S", "B", " ", "D", "A", "C">>],
     [tag |-> <<"s", "p", "d", "i", "f">>,
      name |-> <<"O", "P", "T", "/", "C", "O", "A", "X">>],
     [tag |-> <<"x", "l", "r", "r", "c", "a">>,
      name |-> <<"X", "L", "R", "/", "R", "C", "A">>]}

\* line 63: either name holds the other, letter case aside
NamesMatch(output_name, device_output) ==
    \/ Contains(Upper(output_name), Upper(device_output))
    \/ Contains(Upper(device_output), Upper(output_name))

RECURSIVE FirstNameMatch(_, _, _)
\* lines 60-67: the first value of the catalog that matches, <<>> for None
FirstNameMatch(output_name, names, i) ==
    IF i > Len(names) THEN <<>>
    ELSE IF NamesMatch(output_name, names[i]) THEN names[i]
    ELSE FirstNameMatch(output_name, names, i + 1)

\* lines 55-56: the catalog's name for the button's own tag
ExactTagMatch(c, output_tag) ==
    IF DictHas(c.outputs, output_tag) THEN DictGet(c.outputs, output_tag) ELSE <<>>

\* a plausible slip: the button's own tag is never looked up
NameMatchOnly(c, button) == FirstNameMatch(button.name, DictValues(c.outputs), 1)

\* lines 53-67: matched_output
MatchedOutput(c, button) ==
    IF ExactTagMatch(c, button.tag) # <<>> THEN ExactTagMatch(c, button.tag)
    ELSE FirstNameMatch(button.name, DictValues(c.outputs), 1)

\* lines 69-80, once the output is matched
PressWith(c, matched, net) ==
    IF matched = <<>> THEN Returned("NOT_IMPLEMENTED", "none")
    ELSE Invoked("select_output", select_output(c, matched, net))

\* EversoloOutputButton.handle_command
button_handle_command(c, button, net) == PressWith(c, MatchedOutput(c, button), net)

\* enabled outputs: upper-case tags as in the catalogs above, a lower-case
\* tag, a lower-case name, a name no button matches; and a disabled one
ButtonEntries ==
    {Entry(Tags.RCA, DevNames.RCA, "true"), Entry(Tags.XLRRCA, DevNames.XLRRCA, "true"),
     Entry(Tags.XLR, DevNames.XLR, "true"), Entry(Tags.USB, DevNames.USB, "true"),
     Entry(<<"r", "c", "a">>, <<"A", "u", "x">>, "true"),
     Entry(Tags.BT, <<"r", "c", "a">>, "true"), Entry(Tags.BT, DevNames.BT, "true"),
     Entry(Tags.USB, DevNames.USB, "false")}

\* the state a poll leaves whose output list was outs
PolledOutputs(outs) ==
    StoreAndParse(InitSnap, MusicPlaying,
                  [k |-> "obj", inputData |-> <<>>, outputData |-> outs,
                   inputIndex |-> Num(0), outputIndex |-> Num(0)]).snap

InitButton ==
    /\ session = "open"
    /\ macStored = FALSE
    /\ \E outs \in ListsUpTo(ButtonEntries, MaxList) :
          /\ state_data = PolledOutputs(outs).sd
          /\ outputs = PolledOutputs(outs).outputs
          /\ output_tags = PolledOutputs(outs).output_tags
    /\ sources = <<>>
    /\ source_tags = <<>>
    /\ est = [IdleEst EXCEPT !.pc = "returned", !.polls = 1, !.contact = TRUE]
    /\ tick = IdleTick
    /\ last = NoCall
    /\ wire = NoIO

\* line 35: f"button.{device_config.identifier}_output_{output_tag}"
output_button_entity_id(output_tag) ==
    <<"button", ".", Ident, "_output_">> \o output_tag

\* the button (its id is what the remote addresses) was pressed: it passed
\* matched on and returned r
ButtonCalled(button, matched, r) ==
    /\ last' = [layer |-> "output_button", op |-> "push", button |-> button,
                id |-> output_button_entity_id(button.tag),
                matched |-> matched, code |-> r.code, devop |-> r.devop,
                ret |-> r.ret, caught |-> r.caught, requests |-> r.requests,
                url |-> r.url]
    /\ session' = SessionAfter(r.requests)
    /\ UNCHANGED <<macStored, state_data, sources, source_tags, outputs,
                   output_tags, est, tick, wire>>

PressOutputButton ==
    \E button \in OutputButtons, net \in CmdNets :
       ButtonCalled(button, MatchedOutput(Cur, button),
                    button_handle_command(Cur, button, net))

NextButton == PressOutputButton

SpecButton == InitButton /\ [][NextButton]_vars

\* the positions of the catalog whose name holds the button's display name
\* or is held by it, letter case aside
MatchingPositions(button) ==
    {i \in 1..Len(outputs) :
        \/ Contains(Upper(button.name), Upper(outputs[i].v))
        \/ Contains(Upper(outputs[i].v), Upper(button.name))}

\* the output the claim resolves the button to (<<>>: none)
Resolved(button) ==
    IF \E i \in 1..Len(outputs) : outputs[i].k = button.tag
    THEN outputs[CHOOSE i \in 1..Len(outputs) : outputs[i].k = button.tag].v
    ELSE IF MatchingPositions(button) = {} THEN <<>>
    ELSE outputs[CHOOSE i \in MatchingPositions(button) :
                    \A j \in MatchingPositions(button) : i <= j].v

\* C16: a pressed output button resolves an output first by its own tag
\* among the tags of the catalog and, failing that, by the first catalog
\* name that matches its display name as a case-insensitive substring;
\* with no match it returns NOT_IMPLEMENTED and calls nothing on the
\* device, otherwise it calls select_output with the matched output and
\* returns OK when that gave true and SERVER_ERROR when it gave false.
C16_ButtonResolution ==
    last.layer = "output_button" =>
        /\ last.matched = Resolved(last.button)
        /\ (Resolved(last.button) = <<>>)
              => /\ last.code = "NOT_IMPLEMENTED"
                 /\ last.devop = "none"
                 /\ last.requests = 0
        /\ (Resolved(last.button) # <<>>)
              => /\ last.devop = "select_output"
                 /\ last.ret \in {"true", "false"}
                 /\ last.code = IF last.ret = "true" THEN "OK" ELSE "SERVER_ERROR"
                 /\ (last.ret = "true")
                       => DictGet(outputs, last.url.tag) = last.matched

\* a button that finds its lower-case tag in the catalog while an earlier
\* name matches its display name, and selects the output of the tag
C16_Witness ==
    /\ last.layer = "output_button"
    /\ last.button.tag = <<"r", "c", "a">>
    /\ Len(outputs) = 2
    /\ outputs[1].v = DevNames.RCA
    /\ outputs[2].k = <<"r", "c", "a">>
    /\ last.matched = <<"A", "u", "x">>
    /\ last.code = "OK"

RECURSIVE SplitDots(_)
\* id.split("."): the parts between the dots
SplitDots(id) ==
    IF \A i \in 1..Len(id) : id[i] # "." THEN <<id>>
    ELSE LET d == CHOOSE i \in 1..Len(id) :
                     id[i] = "." /\ \A j \in 1..(i - 1) : id[j] # "."
         IN  <<SubSeq(id, 1, d - 1)>> \o SplitDots(SubSeq(id, d + 1, Len(id)))

\* C17: the id of every output button entity is
\* button.<device identifier>.output_<tag>, with a dot after the device
\* identifier: split on '.', its second part is the device identifier.
C17_ButtonIdHasDotAfterIdentifier ==
    last.layer = "output_button" =>
        /\ last.id = <<"button", ".", Ident, ".", "output_">> \o last.button.tag
        /\ Len(SplitDots(last.id)) = 3
        /\ SplitDots(last.id)[2] = <<Ident>>

\* the id of the RCA button as the code builds it: two parts, the second
\* one the identifier run together with the output suffix
C17_Witness ==
    /\ last.layer = "output_button"
    /\ last.button.tag = <<"r", "c", "a">>
    /\ SplitDots(last.id) = <<(<<"button">>), <<Ident, "_output_", "r", "c", "a">>>>

\* the positions of the catalog whose tag is the button's tag, letter case
\* aside
OwnKind(button) == {i \in 1..Len(outputs) : Lower(outputs[i].k) = button.tag}

\* C29: whenever the catalog holds an output whose tag equals the
\* button's tag ignoring case, pressing the button selects exactly that
\* output, whatever the catalog holds and in whatever order: the output it
\* passes to select_output, and the tag of the request sent, are those of
\* its own kind and never those of another kind.
C29_ButtonSelectsOwnKind ==
    (last.layer = "output_button" /\ OwnKind(last.button) # {}) =>
        /\ last.matched \in {outputs[i].v : i \in OwnKind(last.button)}
        /\ last.devop = "select_output"
        /\ last.requests > 0 => Lower(last.url.tag) = last.button.tag

\* the XLR/RCA button pressed over a catalog that lists RCA before
\* XLR/RCA: the request sent selects RCA
C29_Witness ==
    /\ last.layer = "output_button"
    /\ last.button.tag = <<"x", "l", "r", "r", "c", "a">>
    /\ Len(outputs) = 2
    /\ outputs[1] = [k |-> Tags.RCA, v |-> DevNames.RCA]
    /\ outputs[2] = [k |-> StripSlash(Tags.XLRRCA), v |-> DevNames.XLRRCA]
    /\ last.matched = DevNames.RCA
    /\ last.code = "OK"
    /\ last.url.tag = Tags.RCA


(***************************************************************************)
(* Seventh specification: the two light entities (light.py).  wire holds   *)
(* their BRIGHTNESS attributes, [display, knob], as JSON scalars: 0 from   *)
(* the constructor, afterwards what the UPDATE event of a tick carried     *)
(* (the framework writes an event's attributes into the entity).           *)
(***************************************************************************)
Lights == {"display", "knob"}

\* the top of the light's native range
LightMax(light) == IF light = "display" THEN 115 ELSE 255

\* int(a / b): the quotient cut towards zero
TruncDiv(a, b) == IF a >= 0 THEN a \div b ELSE -((-a) \div b)

\* light.py 52-53: int((brightness_255 / 255) * 115); 113: the value itself
LightLevel(light, brightness) ==
    IF light = "display" THEN TruncDiv(brightness * 115, 255) ELSE brightness

\* the setter of the light, called with brightness
LightSet(light, brightness, net) ==
    IF light = "display"
    THEN Invoked("set_display_brightness", set_display_brightness(brightness, net))
    ELSE Invoked("set_knob_brightness", set_knob_brightness(brightness, net))

\* a plausible slip: toggle always switches on
ToggleAlwaysOn(current, max) == max

\* lines 67-71: current == 0
ToggleTarget(current, max) == IF current = Num(0) THEN max ELSE 0

\* lines 47-78 (display) and 108-138 (knob); current is the entity's
\* BRIGHTNESS attribute
light_handle_command(light, cmd_id, params, val, current, net) ==
    CASE cmd_id = "on" ->
            IF ~ParamGiven(params) THEN LightSet(light, LightMax(light), net)
            ELSE IF val.k # "int" THEN Returned("SERVER_ERROR", "ValueError")
            ELSE LightSet(light, LightLevel(light, val.n), net)
      [] cmd_id = "off" -> LightSet(light, 0, net)
      [] cmd_id = "toggle" ->
            LightSet(light, ToggleTarget(current, LightMax(light)), net)
      [] OTHER -> Returned("NOT_IMPLEMENTED", "none")

\* params["brightness"] as the remote sends it, in and out of 0..255
BrightnessParams == {IntArg(b) : b \in {-5, 0, 1, 3, 128, 200, 255, 300}}

LightCommands == {"on", "off", "toggle", "dim"}

InitLight ==
    /\ session = "open"
    /\ macStored = FALSE
    /\ state_data = InitData
    /\ sources = <<>>
    /\ source_tags = <<>>
    /\ outputs = <<>>
    /\ output_tags = <<>>
    /\ est = [IdleEst EXCEPT !.pc = "returned", !.polls = 1, !.contact = TRUE]
    /\ tick = IdleTick
    /\ last = NoCall
    /\ wire = [display |-> Num(0), knob |-> Num(0)]

\* handle_command of the light was called and gave r
LightCalled(light, cmd_id, params, val, r) ==
    /\ last' = [layer |-> "light", light |-> light, op |-> cmd_id,
                params |-> params, arg |-> val, current |-> wire[light],
                code |-> r.code, devop |-> r.devop, ret |-> r.ret,
                caught |-> r.caught, requests |-> r.requests, url |-> r.url]
    /\ session' = SessionAfter(r.requests)
    /\ UNCHANGED <<macStored, state_data, sources, source_tags, outputs,
                   output_tags, est, tick, wire>>

\* a command that carries a brightness
LightCommandWith ==
    \E light \in Lights, cmd_id \in LightCommands,
       val \in BrightnessParams \cup {BadArg}, net \in CmdNets :
       LightCalled(light, cmd_id, "has", val,
                   light_handle_command(light, cmd_id, "has", val,
                                        wire[light], net))

\* a command without one: params is None, empty or holds other keys
LightCommandWithout ==
    \E light \in Lights, cmd_id \in LightCommands,
       params \in {"none", "empty", "nokey"}, net \in CmdNets :
       LightCalled(light, cmd_id, params, NoArg,
                   light_handle_command(light, cmd_id, params, NoArg,
                                        wire[light], net))

\* a tick ran to its end with f: its light events reach the entities
LightsPolled(f) ==
    /\ SetCur(f.snap)
    /\ wire' = IF f.exc # "none" THEN wire
               ELSE [display |-> Num(f.emitted[5].attrs.BRIGHTNESS),
                     knob |-> f.emitted[6].attrs.BRIGHTNESS]
    /\ last' = NoCall
    /\ session' = EnsureSession(session)
    /\ UNCHANGED <<macStored, est, tick>>

\* a whole poll tick whose two fetches succeeded
PollLights ==
    \E d \in BrightReplies, k \in BrightReplies :
       LightsPolled(FinishTick(StoreAndParse(Cur, MusicPlaying, IOUsual).snap,
                               BrightnessOf(d), BrightnessOf(k)))

NextLight ==
    \/ LightCommandWith
    \/ LightCommandWithout
    \/ PollLights

SpecLight == InitLight /\ [][NextLight]_vars

\* C18: whatever the light command and the brightness asked for, the index
\* sent to the device is in the light's native range (0..115 for the
\* display, 0..255 for the knob), and ON without a brightness parameter
\* sends the top of that range.
C18_BrightnessInNativeRange ==
    (last.layer = "light" /\ last.requests > 0) =>
        /\ last.url.n \in 0..LightMax(last.light)
        /\ last.url.path =
              IF last.light = "display"
              THEN "/SystemSettings/displaySettings/setScreenBrightness?index="
              ELSE "/SystemSettings/displaySettings/setKnobBrightness?index="
        /\ (last.op = "on" /\ last.params # "has")
              => last.url.n = LightMax(last.light)

\* ON with brightness 300 sends the top of the range; ON without a
\* parameter does too
C18_Witness ==
    /\ last.layer = "light"
    /\ last.op = "on"
    /\ last.requests = 1
    /\ last.url.n = LightMax(last.light)
    /\ \/ last.arg = IntArg(300)
       \/ last.params = "none"

\* C19: TOGGLE decides from the entity's BRIGHTNESS attribute and reads
\* nothing from the device: its one request sets the top of the range
\* (115 display, 255 knob) when the attribute is 0 and sets 0 otherwise,
\* and the attribute is what it was before the command.
C19_ToggleReadsAttribute ==
    (last.layer = "light" /\ last.op = "toggle") =>
        /\ last.requests = 1
        /\ last.devop = IF last.light = "display" THEN "set_display_brightness"
                        ELSE "set_knob_brightness"
        /\ last.url.n = IF last.current = Num(0) THEN LightMax(last.light) ELSE 0
        /\ wire[last.light] = last.current

\* the knob's attribute is still 0 while the stored device value is 58
\* (the tick that fetched it raised before the light events): toggle
\* switches on; and a display attribute of 128 makes toggle switch off
C19_Witness ==
    /\ last.layer = "light"
    /\ last.op = "toggle"
    /\ \/ /\ last.light = "knob"
          /\ last.current = Num(0)
          /\ state_data.knob_brightness = Num(58)
          /\ last.url.n = 255
       \/ /\ last.light = "display"
          /\ last.current = Num(128)
          /\ last.url.n = 0


(***************************************************************************)
(* Eighth specification: query_device of the setup flow (setup_flow.py).   *)
(* last is the call: pc is "connecting" (awaiting connect, line 74),       *)
(* "returned" or "raised"; created: the trial device exists; attempted:    *)
(* its connect was awaited; disconnects: the calls of its disconnect;      *)
(* config: the name and model of the configuration returned.  session is the session of the      *)
(* trial device: establish_connection opens it before its first request    *)
(* and only close_connection, reached through disconnect, closes it.       *)
(* connect and disconnect belong to the framework's PollingDevice.         *)
(***************************************************************************)
\* config.py 17-21: the fields of the dataclass EversoloConfig
ConfigFields == {"identifier", "name", "host", "port", "mac_address"}

\* the keywords both constructions of query_device pass
QueryKeywords == {"identifier", "name", "host", "port", "model"}

\* EversoloConfig(**keywords) raises TypeError for a keyword that is no field
Constructs(fields, keywords) == keywords \subseteq fields

\* the class of config.py, and one that also has the model field the flow
\* passes and the persisted parameters are described with
ConfigClasses == {ConfigFields, ConfigFields \cup {"model"}}

RECURSIVE Strip(_)
\* str.strip() for blanks
Strip(s) ==
    IF s = <<>> THEN s
    ELSE IF Head(s) = " " THEN Strip(Tail(s))
    ELSE IF s[Len(s)] = " " THEN Strip(SubSeq(s, 1, Len(s) - 1))
    ELSE s

\* what the user typed: host, port, name (DefaultName: no name was given
\* and f"Eversolo ({host})" stands in)
Hosts == {<<>>, <<" ">>, <<"1", "0", ".", "0", ".", "0", ".", "7">>,
          <<" ", "e", "v", "e", "r", ".", "l", "a", "n">>}

Ports == {IntArg(9529), IntArg(80), BadArg}

DefaultName == "Eversolo (host)"

DecimalDigits == <<"0", "1", "2", "3", "4", "5", "6", "7", "8", "9">>

SetupNames == {DefaultName, "Living Room", "Den"}

NoConfig == [name |-> <<>>, model |-> "", host |-> <<>>, port |-> 0,
             identifier |-> <<>>]

\* connect: what asyncio.wait_for(test_device.connect(), 10.0) gives
ConnectOutcomes == {"true", "false", "TimeoutError", "ClientError", "OSError"}

\* test_device.model_name: a name, an empty one, or no such attribute
ModelNames == {"DMP-A8", "", "AttributeError"}

NoQuery ==
    [layer |-> "setup", op |-> "query_device", pc |-> "idle", host |-> <<>>,
     port |-> 0, created |-> FALSE, attempted |-> FALSE, disconnects |-> 0,
     name |-> DefaultName, exc |-> "none", cause |-> "none",
     config |-> NoConfig]

InitSetup ==
    /\ session = "none"
    /\ macStored = FALSE
    /\ state_data = InitData
    /\ sources = <<>>
    /\ source_tags = <<>>
    /\ outputs = <<>>
    /\ output_tags = <<>>
    /\ est = IdleEst
    /\ tick = IdleTick
    /\ last = NoQuery
    /\ wire = NoIO

\* query_device is left by ValueError; cause is what raised first
SetupError(q, cause) == [q EXCEPT !.pc = "raised", !.exc = "ValueError", !.cause = cause]

\* lines 54-74: up to the await of connect
query_device_start(host, port, name, fields) ==
    IF Strip(host) = <<>> THEN SetupError(NoQuery, "host")
    ELSE IF port.k # "int"
    THEN SetupError([NoQuery EXCEPT !.host = Strip(host)], "port")
    ELSE IF ~Constructs(fields, QueryKeywords)
    THEN SetupError([NoQuery EXCEPT !.host = Strip(host), !.port = port.n,
                                    !.name = name], "TypeError")
    ELSE [NoQuery EXCEPT !.host = Strip(host), !.port = port.n,
                         !.name = name, !.pc = "connecting",
                         !.created = TRUE, !.attempted = TRUE]

\* await test_device.disconnect()
Disconnected(q) == [q EXCEPT !.disconnects = @ + 1]

\* lines 81-84: detected_model
DetectedModel(model_name) == IF model_name = "" THEN "DMP-A6" ELSE model_name

\* host.replace('.', '_')
ReplaceDots(s) == [i \in 1..Len(s) |-> IF s[i] = "." THEN "_" ELSE s[i]]

RECURSIVE IntText(_)
\* f"{port}": the decimal digits of a natural number
IntText(n) ==
    IF n < 10 THEN <<DecimalDigits[n + 1]>>
    ELSE IntText(n \div 10) \o <<DecimalDigits[(n % 10) + 1]>>

\* lines 64 and 92: f"eversolo_{host.replace('.', '_')}_{port}"
identifier(host, port) ==
    <<"e", "v", "e", "r", "s", "o", "l", "o", "_">> \o ReplaceDots(host)
        \o <<"_">> \o IntText(port)

\* lines 91-97: final_config
FinalConfig(host, port, name, model) ==
    [name |-> IF name = DefaultName THEN <<name, " ", model>> ELSE <<name>>,
     model |-> model, host |-> host, port |-> port,
     identifier |-> identifier(host, port)]

\* lines 76-108: from the result of connect to the end
query_device_finish(q, connected, model_name) ==
    IF connected \notin {"true", "false"} THEN SetupError(q, connected)
    ELSE IF connected = "false" THEN SetupError(Disconnected(q), "not connected")
    ELSE IF model_name = "AttributeError" THEN SetupError(q, "AttributeError")
    ELSE [Disconnected(q) EXCEPT
              !.pc = "returned",
              !.config = FinalConfig(q.host, q.port, q.name,
                                     DetectedModel(model_name))]

\* the user submits the form (again, once a query has ended)
QueryStart ==
    /\ last.pc \in {"idle", "returned", "raised"}
    /\ \E host \in Hosts, port \in Ports, name \in SetupNames,
          fields \in ConfigClasses :
          /\ last' = query_device_start(host, port, name, fields)
          /\ session' = IF query_device_start(host, port, name, fields).attempted
                         THEN "open" ELSE "none"
    /\ UNCHANGED <<macStored, state_data, sources, source_tags, outputs,
                   output_tags, est, tick, wire>>

\* connect ends, one way or another, and query_device runs to its end
QueryFinish ==
    /\ last.pc = "connecting"
    /\ \E connected \in ConnectOutcomes, model_name \in ModelNames :
          /\ last' = query_device_finish(last, connected, model_name)
          /\ session' = IF query_device_finish(last, connected, model_name).disconnects > 0
                         THEN "none" ELSE session
    /\ UNCHANGED <<macStored, state_data, sources, source_tags, outputs,
                   output_tags, est, tick, wire>>

NextSetup ==
    \/ QueryStart
    \/ QueryFinish

SpecSetup == InitSetup /\ [][NextSetup]_vars

DueSetupErrors == {"host", "not connected", "TimeoutError", "ClientError", "OSError"}

\* C25: with a non-empty host and a successful trial connect,
\* query_device returns a configuration whose host and port are those
\* entered and whose identifier is eversolo_<host, dots as underscores>_<port>;
\* it ends with a setup error only when the host is empty or the connect
\* fails, times out or raises.
C25_SetupReturnsEnteredParameters ==
    last.layer = "setup" =>
        /\ last.pc = "returned" =>
              /\ last.config.host = last.host
              /\ last.config.port = last.port
              /\ last.config.identifier =
                     <<"e", "v", "e", "r", "s", "o", "l", "o", "_">>
                         \o ReplaceDots(last.host) \o <<"_">> \o IntText(last.port)
        /\ last.pc = "raised" => last.cause \in DueSetupErrors

\* the host 10.0.0.7 and the port 9529 were entered and the setup error
\* is raised by the construction of the trial configuration, before any
\* connect
C25_Witness ==
    /\ last.layer = "setup"
    /\ last.pc = "raised"
    /\ last.cause = "TypeError"
    /\ last.host = <<"1", "0", ".", "0", ".", "0", ".", "7">>
    /\ last.port = 9529
    /\ ~last.attempted
    /\ session = "none"

(***************************************************************************)
(* Ninth specification: the coroutines of one device on its event loop.    *)
(* Two poll_device calls can be in flight: the tick of the polling task    *)
(* ("sched", which is also the initial poll of establish_connection) and   *)
(* the immediate poll a select handler awaits after a successful           *)
(* select_source ("imm", select.py line 57).  A step is what runs between  *)
(* two awaits.  tick maps each task to its call; last is the select        *)
(* handler's call; wire records where the stored values come from: now     *)
(* counts the fetches of the two poll payloads, ticks the poll_device      *)
(* calls, and for each stored component by is the call that stored it and  *)
(* at the fetch that brought it.                                           *)
(***************************************************************************)
\* the fetches of transport state and input/output list the model follows
MaxFetches == 6

\* the poll_device calls the model follows
MaxTicks == 3

Tasks == {"sched", "imm"}

Stamp(at, by) == [at |-> at, by |-> by]

NoOrigins == [now |-> 0, ticks |-> 0, music |-> Stamp(0, 0), io |-> Stamp(0, 0),
              display_brightness |-> 0, knob_brightness |-> 0]

\* a poll_device call: pc as in the first specification; n its number;
\* music, musicAt, disp its locals and the fetch that filled music; fails
\* the fetches that failed; notified the UPDATE events it emitted
IdleTask == [pc |-> "idle", n |-> 0, caller |-> "none", music |-> NoMusic,
             musicAt |-> 0, disp |-> JAbsent, fails |-> {}, exc |-> "none",
             notified |-> 0]

NoSelect == [layer |-> "select", op |-> "select_option", pc |-> "idle",
             code |-> "none", requests |-> 0, url |-> NoUrl]

\* what the device answers here
TaskMusic == {MusicPaused}
TaskIO == {IOUsual, EmptyIO}
TaskBright == {[net |-> "ClientError", idx |-> JAbsent], [net |-> "ok", idx |-> Num(58)]}
Options == {DevNames.BT, NameUnknown}
\* a request of a poll_device call fails
TaskErrors == {"TimeoutError"}

InitTasks ==
    /\ session = "none"
    /\ macStored = FALSE
    /\ state_data = InitData
    /\ sources = <<>>
    /\ source_tags = <<>>
    /\ outputs = <<>>
    /\ output_tags = <<>>
    /\ est = IdleEst
    /\ tick = [p \in Tasks |-> IdleTask]
    /\ last = NoSelect
    /\ wire = NoOrigins

TaskFree(p) == tick[p].pc \in {"idle", "done"}

\* poll_device up to its first request, line 155
TaskStarted(caller) ==
    [IdleTask EXCEPT !.pc = "getState", !.caller = caller, !.n = wire.ticks + 1]

\* the call of task p is over, as t: establish_connection and the select
\* handler go on from their "await self.poll_device()"
TaskEnds(p, t) ==
    /\ tick' = [tick EXCEPT ![p] = [t EXCEPT !.pc = "done"]]
    /\ est' = IF t.caller = "connect"
              THEN [est EXCEPT !.pc = "returned", !.polls = @ + 1] ELSE est
    /\ last' = IF t.caller = "select"
               THEN [last EXCEPT !.pc = "returned", !.code = "OK"] ELSE last

\* establish_connection, lines 92-97: up to the first request
ConnectStart ==
    /\ est.pc \in {"idle", "raised"}
    /\ TaskFree("sched")
    /\ est' = [IdleEst EXCEPT !.pc = "firstContact"]
    /\ session' = EnsureSession(session)
    /\ UNCHANGED <<macStored, state_data, sources, source_tags, outputs,
                   output_tags, tick, last, wire>>

\* lines 105-108 of establish_connection
ConnectPolls ==
    /\ wire.ticks < MaxTicks
    /\ est' = [est EXCEPT !.pc = "poll", !.contact = TRUE]
    /\ tick' = [tick EXCEPT !.sched = TaskStarted("connect")]
    /\ wire' = [wire EXCEPT !.ticks = @ + 1]

\* lines 95-103: the first request answers; the MAC address is taken from
\* it, or get_device_model is asked for it
ConnectReply ==
    /\ est.pc = "firstContact"
    /\ \/ \E e \in TaskErrors :
            /\ est' = [est EXCEPT !.pc = "raised"]
            /\ UNCHANGED <<macStored, tick, wire>>
       \/ \E m \in TaskMusic :
            IF macStored \/ m.mac
            THEN /\ macStored' = TRUE
                 /\ ConnectPolls
            ELSE /\ est' = [est EXCEPT !.pc = "getModel", !.contact = TRUE]
                 /\ UNCHANGED <<macStored, tick, wire>>
    /\ session' = EnsureSession(session)
    /\ UNCHANGED <<state_data, sources, source_tags, outputs, output_tags, last>>

\* get_device_model answered (or failed), lines 659-670
ConnectModelReply ==
    /\ est.pc = "getModel"
    /\ \E found \in BOOLEAN : macStored' = found
    /\ ConnectPolls
    /\ session' = EnsureSession(session)
    /\ UNCHANGED <<state_data, sources, source_tags, outputs, output_tags, last>>

\* the polling task starts a tick
SchedStart ==
    /\ est.pc = "returned"
    /\ TaskFree("sched")
    /\ wire.ticks < MaxTicks
    /\ tick' = [tick EXCEPT !.sched = TaskStarted("sched")]
    /\ wire' = [wire EXCEPT !.ticks = @ + 1]
    /\ session' = EnsureSession(session)
    /\ UNCHANGED <<macStored, state_data, sources, source_tags, outputs,
                   output_tags, est, last>>

\* select.py lines 52-55: the handler is called with an option and awaits
\* select_source, which returns false at once for a name it does not know
SelectCalled ==
    /\ last.pc \in {"idle", "returned"}
    /\ TaskFree("imm")
    /\ \E option \in Options :
         LET r == select_source(Cur, option, "ok") IN
         /\ last' = IF r.requests = 0
                    THEN [NoSelect EXCEPT !.pc = "returned", !.code = "SERVER_ERROR"]
                    ELSE [NoSelect EXCEPT !.pc = "selecting", !.requests = 1,
                                          !.url = r.url]
         /\ session' = SessionAfter(r.requests)
    /\ UNCHANGED <<macStored, state_data, sources, source_tags, outputs,
                   output_tags, est, tick, wire>>

\* lines 56-58: the request of select_source ends; after a success the
\* handler awaits poll_device
SelectReply ==
    /\ last.pc = "selecting"
    /\ \E net \in CmdNets :
         IF net = "ok" /\ wire.ticks < MaxTicks
         THEN /\ last' = [last EXCEPT !.pc = "polling"]
              /\ tick' = [tick EXCEPT !.imm = TaskStarted("select")]
              /\ wire' = [wire EXCEPT !.ticks = @ + 1]
         ELSE /\ net # "ok"
              /\ last' = [last EXCEPT !.pc = "returned", !.code = "SERVER_ERROR"]
              /\ UNCHANGED <<tick, wire>>
    /\ session' = EnsureSession(session)
    /\ UNCHANGED <<macStored, state_data, sources, source_tags, outputs,
                   output_tags, est>>

\* the except clause of poll_device, line 182
TaskFailed(t, where, exc) == [t EXCEPT !.fails = @ \cup {where}, !.exc = exc]

\* line 155 answers
TaskGetState(p) ==
    /\ tick[p].pc = "getState"
    /\ \/ \E e \in TaskErrors :
            /\ TaskEnds(p, TaskFailed(tick[p], "getState", e))
            /\ wire' = wire
       \/ /\ wire.now < MaxFetches
          /\ \E m \in TaskMusic :
               tick' = [tick EXCEPT ![p].pc = "getIO", ![p].music = m,
                                    ![p].musicAt = wire.now + 1]
          /\ wire' = [wire EXCEPT !.now = @ + 1]
          /\ UNCHANGED <<est, last>>
    /\ session' = EnsureSession(session)
    /\ UNCHANGED <<macStored, state_data, sources, source_tags, outputs,
                   output_tags>>

\* where the stored values come from once lines 160-165 ran for io
StoredOrigins(w, t, io) ==
    [w EXCEPT !.now = @ + 1,
              !.music = Stamp(t.musicAt, t.n),
              !.io = IF IOTruthy(io) THEN Stamp(w.now + 1, t.n) ELSE @]

\* lines 156-165: the second request answers and both payloads are stored
TaskGetIO(p) ==
    /\ tick[p].pc = "getIO"
    /\ \/ \E e \in TaskErrors :
            /\ TaskEnds(p, TaskFailed(tick[p], "getIO", e))
            /\ UNCHANGED <<state_data, sources, source_tags, outputs,
                           output_tags, wire>>
       \/ /\ wire.now < MaxFetches
          /\ \E io \in TaskIO :
               /\ SetCur(StoreAndParse(Cur, tick[p].music, io).snap)
               /\ wire' = StoredOrigins(wire, tick[p], io)
          /\ tick' = [tick EXCEPT ![p].pc = "getDisp"]
          /\ UNCHANGED <<est, last>>
    /\ session' = EnsureSession(session)
    /\ UNCHANGED macStored

\* line 168: get_display_brightness returns the index, or None when its
\* request failed
TaskGetDisp(p) ==
    /\ tick[p].pc = "getDisp"
    /\ \E r \in TaskBright :
         tick' = [tick EXCEPT
                     ![p].pc = "getKnob",
                     ![p].disp = BrightnessOf(r),
                     ![p].fails = IF r.net = "ok" THEN @ ELSE @ \cup {"getDisp"}]
    /\ session' = EnsureSession(session)
    /\ UNCHANGED <<macStored, state_data, sources, source_tags, outputs,
                   output_tags, est, last, wire>>

\* where the brightness levels come from once lines 171-174 ran
BrightnessOrigins(w, t, d, k) ==
    [w EXCEPT !.display_brightness = IF d.t = "absent" THEN @ ELSE t.n,
              !.knob_brightness = IF k.t = "absent" THEN @ ELSE t.n]

\* the call after lines 171-179 gave f
TaskFinished(p, t, f) ==
    /\ SetCur(f.snap)
    /\ TaskEnds(p, [t EXCEPT !.notified = Len(f.emitted), !.exc = f.exc,
                             !.disp = JAbsent])

\* line 169 answers, and the call runs to its end
TaskGetKnob(p) ==
    /\ tick[p].pc = "getKnob"
    /\ \E r \in TaskBright :
         /\ TaskFinished(p, [tick[p] EXCEPT
                                !.fails = IF r.net = "ok" THEN @
                                          ELSE @ \cup {"getKnob"}],
                         FinishTick(Cur, tick[p].disp, BrightnessOf(r)))
         /\ wire' = BrightnessOrigins(wire, tick[p], tick[p].disp, BrightnessOf(r))
    /\ session' = EnsureSession(session)
    /\ UNCHANGED macStored

\* close_connection up to "await self._session.close()": the polling task
\* has been stopped
ClosingStart ==
    /\ est.pc = "returned"
    /\ TaskFree("sched")
    /\ IF session = "none"
       THEN est' = IdleEst /\ session' = session
       ELSE est' = [est EXCEPT !.pc = "closing"] /\ session' = "closing"
    /\ UNCHANGED <<macStored, state_data, sources, source_tags, outputs,
                   output_tags, tick, last, wire>>

\* ... and from there to "self._session = None", line 118
ClosingDone ==
    /\ est.pc = "closing"
    /\ est' = IdleEst
    /\ session' = "none"
    /\ UNCHANGED <<macStored, state_data, sources, source_tags, outputs,
                   output_tags, tick, last, wire>>

NextTasks ==
    \/ ConnectStart
    \/ ConnectReply
    \/ ConnectModelReply
    \/ SchedStart
    \/ SelectCalled
    \/ SelectReply
    \/ \E p \in Tasks : TaskGetState(p)
    \/ \E p \in Tasks : TaskGetIO(p)
    \/ \E p \in Tasks : TaskGetDisp(p)
    \/ \E p \in Tasks : TaskGetKnob(p)
    \/ ClosingStart
    \/ ClosingDone

SpecTasks == InitTasks /\ [][NextTasks]_vars

(***************************************************************************)
(* Properties of the coroutines.                                           *)
(***************************************************************************)
\* the poll_device calls that stored the components of the stored state
StoredBy == {wire.music.by, wire.io.by, wire.display_brightness,
             wire.knob_brightness}

\* C21: at every await of a poll tick and at its end, the stored state
\* (transport state, input/output list with its catalogs, both brightness
\* levels) is as a whole what one poll_device call left: what the tick
\* before left or what this tick fetched, never components of both
C21_StoredStateIsOneTick == Cardinality(StoredBy) = 1

\* a tick waits for the display brightness while the select handler runs:
\* the transport state and the input/output list in store are that
\* tick's, the brightness levels are not
C21_Witness ==
    /\ tick.sched.pc = "getDisp"
    /\ wire.music.by = tick.sched.n
    /\ wire.io.by = tick.sched.n
    /\ wire.display_brightness # tick.sched.n
    /\ last.pc = "selecting"

\* C22: last poll wins: neither the stored transport state nor the stored
\* input/output list is ever replaced by data fetched before the data it
\* replaces, also when two poll_device calls overlap
C22_LastPollWins ==
    [][wire'.music.at >= wire.music.at /\ wire'.io.at >= wire.io.at]_vars

\* the select handler's poll has stored what it fetched, and the tick of
\* the polling task, which fetched its transport state before, stores it
\* over that
C22_Witness ==
    /\ tick.sched.pc = "getDisp"
    /\ tick.imm.pc \in {"getDisp", "getKnob", "done"}
    /\ "getIO" \notin tick.imm.fails
    /\ tick.imm.n > tick.sched.n
    /\ tick.imm.musicAt > tick.sched.musicAt
    /\ wire.music = Stamp(tick.sched.musicAt, tick.sched.n)

\* C23: a tick one of whose four fetches failed has ended without a
\* notification and without storing anything
C23_FailedFetchAbortsTick ==
    \A p \in Tasks :
       (tick[p].pc = "done" /\ tick[p].fails # {}) =>
           /\ tick[p].notified = 0
           /\ tick[p].n \notin StoredBy

\* the display brightness could not be fetched, and the tick went on to
\* store both payloads and notify every entity
C23_Witness ==
    /\ tick.sched.pc = "done"
    /\ tick.sched.fails = {"getDisp"}
    /\ tick.sched.exc = "none"
    /\ tick.sched.notified > 0
    /\ wire.music.by = tick.sched.n

\* C27: a device that is Disconnected, before establish_connection or
\* after close_connection has completed, holds no session
C27_DisconnectedHasNoSession == est.pc = "idle" => session = "none"

\* the select handler was called after close_connection had completed,
\* and its request created a session
C27_Witness ==
    /\ est.pc = "idle"
    /\ session = "open"
    /\ last.pc = "selecting"
    /\ TaskFree("sched")
    /\ TaskFree("imm")

(***************************************************************************)
(* Malformed payloads (first specification).                               *)
(***************************************************************************)
\* the accessors and set_volume over the stored snapshot
StoredReadsFail ==
    \/ get_volume(state_data).exc # "none"
    \/ get_muted(state_data).exc # "none"
    \/ get_state(state_data).exc # "none"
    \/ get_current_source(state_data, sources).exc # "none"
    \/ get_media_info(state_data).exc # "none"
    \/ set_volume(state_data, 50, "ok").raised # "none"

\* C24: a tick both of whose payloads arrived completes whatever fields
\* they miss or hold as null or as a non-number: no exception ends it, its
\* notifications are emitted, and the accessors and commands do not fail
\* on the snapshot it stored
C24_MalformedFieldsTolerated ==
    (tick.pc = "done" /\ tick.failedAt \notin {"getState", "getIO"}) =>
        /\ tick.exc = "none"
        /\ tick.emitted # <<>>
        /\ ~StoredReadsFail

\* getState answered JSON null: the tick stored it, _notify_entities
\* raised on it and no entity was notified
C24_Witness ==
    /\ tick.pc = "done"
    /\ tick.music = NullMusic
    /\ state_data.music = NullMusic
    /\ tick.failedAt = "notify"
    /\ tick.exc = "AttributeError"
    /\ tick.emitted = <<>>
    /\ get_volume(state_data).exc = "AttributeError"

(***************************************************************************)
(* The entities the driver creates (first specification).                  *)
(***************************************************************************)
\* media_player.py 36: f"media_player.{device_config.identifier}"
media_player_entity_id == <<"media_player", ".", Ident>>

\* sensor.py 28, 67, 106: f"sensor.{device_config.identifier}_state" ...
state_sensor_entity_id == <<"sensor", ".", Ident, "_state">>
source_sensor_entity_id == <<"sensor", ".", Ident, "_source">>
volume_sensor_entity_id == <<"sensor", ".", Ident, "_volume">>

\* driver.py 31-39: the ids of the entities of entity_classes: the media
\* player, the three sensors and one button per entry of all_outputs
CreatedIds ==
    {media_player_entity_id, state_sensor_entity_id, source_sensor_entity_id,
     volume_sensor_entity_id}
    \cup {output_button_entity_id(button.tag) : button \in OutputButtons}

\* the ids the tick's UPDATE events bear
NotifiedIds == {tick.emitted[i].id : i \in 1..Len(tick.emitted)}

\* C30: every entity id a poll tick targets with an UPDATE is the id of
\* an entity the driver creates for the device, and for each sensor and
\* each output button the driver creates, the id the device notifies it
\* with is the id the entity was created with.
C30_NotifiedIdsAreCreatedIds ==
    /\ \A i \in 1..Len(tick.emitted) : tick.emitted[i].id \in CreatedIds
    /\ TickSucceeded =>
          /\ {state_sensor_entity_id, source_sensor_entity_id,
               volume_sensor_entity_id} \subseteq NotifiedIds
          /\ \A button \in OutputButtons :
                 (\E i \in 1..Len(outputs) : Lower(outputs[i].k) = button.tag)
                    => output_button_entity_id(button.tag) \in NotifiedIds

\* a tick that succeeded over a catalog with outputs: of the UPDATE
\* events it emitted only the media player's bears the id of a created
\* entity
C30_Witness ==
    /\ tick.pc = "done"
    /\ tick.exc = "none"
    /\ outputs # <<>>
    /\ Len(tick.emitted) = 6 + Len(outputs)
    /\ tick.emitted[1].id \in CreatedIds
    /\ tick.emitted[2].id = state_sensor_id
    /\ \A i \in 2..Len(tick.emitted) : tick.emitted[i].id \notin CreatedIds

(***************************************************************************)
(* Tenth specification: the media player entity following the device       *)
(* (media_player.py).  The entity subscribes to the device's UPDATE events *)
(* (line 75) and recomputes its attributes from the accessors in           *)
(* _on_device_update.  last is the entity's attribute dict, wire the bag    *)
(* of the latest UPDATE the device emitted for the media player.  A step   *)
(* is one whole poll tick, handlers included: emit calls them before       *)
(* _notify_entities goes on.                                               *)
(***************************************************************************)
\* a key the attribute dict does not hold yet
NotSet == "<not set>"

\* media_player.py 61-69: the attributes the entity is created with
InitialAttributes ==
    [STATE |-> "UNAVAILABLE", VOLUME |-> 0, MUTED |-> FALSE, SOURCE |-> <<>>,
     SOURCE_LIST |-> <<>>, MEDIA_TITLE |-> NotSet, MEDIA_ARTIST |-> NotSet,
     MEDIA_ALBUM |-> NotSet, MEDIA_IMAGE_URL |-> "", MEDIA_TYPE |-> "",
     MEDIA_DURATION |-> NotSet, MEDIA_POSITION |-> NotSet]

\* lines 81-83: the volume is written only when there is one
WithVolume(attrs, volume) ==
    [attrs EXCEPT !.VOLUME = IF volume.k = "int" THEN volume.n ELSE @]

\* lines 85-95
WithMutedState(attrs, muted, state) ==
    [attrs EXCEPT !.MUTED = muted, !.STATE = MediaState(state)]

\* lines 97-104: the source is written only when there is a current one,
\* the list only when the catalog is not empty
WithSource(attrs, current_source, src) ==
    [attrs EXCEPT !.SOURCE = IF current_source # <<>> THEN current_source ELSE @,
                  !.SOURCE_LIST = IF src # <<>> THEN DictValues(src) ELSE @]

\* lines 107-122: the media attributes are always written
WithMedia(attrs, media_info) ==
    [attrs EXCEPT !.MEDIA_TITLE = OrEmpty(media_info.title),
                  !.MEDIA_ARTIST = OrEmpty(media_info.artist),
                  !.MEDIA_ALBUM = OrEmpty(media_info.album),
                  !.MEDIA_IMAGE_URL = OrEmpty(media_info.image_url),
                  !.MEDIA_TYPE = OrEmpty(media_info.media_type),
                  !.MEDIA_DURATION = IntOrZero(media_info.duration),
                  !.MEDIA_POSITION = IntOrZero(media_info.position)]

\* the handler over the accessors' results, called in this order:
\* get_volume, get_muted, get_state, get_current_source, get_media_info;
\* an accessor that raises leaves the attributes written before it
UpdatedAttributes(attrs, volume, muted, state, cur, media_info, src) ==
    IF volume.exc # "none" THEN attrs
    ELSE IF muted.exc # "none" THEN WithVolume(attrs, volume.val)
    ELSE IF state.exc # "none"
    THEN [WithVolume(attrs, volume.val) EXCEPT !.MUTED = muted.val]
    ELSE IF cur.exc # "none"
    THEN WithMutedState(WithVolume(attrs, volume.val), muted.val, state.val)
    ELSE IF media_info.exc # "none"
    THEN WithSource(WithMutedState(WithVolume(attrs, volume.val), muted.val,
                                   state.val), cur.val, src)
    ELSE WithMedia(WithSource(WithMutedState(WithVolume(attrs, volume.val),
                                             muted.val, state.val),
                              cur.val, src), media_info.val)

\* media_player.py 78-123
on_device_update(attrs, sd, src) ==
    UpdatedAttributes(attrs, get_volume(sd), get_muted(sd), get_state(sd),
                      get_current_source(sd, src), get_media_info(sd), src)

\* the input list is empty and no input is current
IONoInputs == [IOUsual EXCEPT !.inputData = <<>>, !.inputIndex = Num(-1)]

\* the inputs are listed and none is current
IONoCurrent == [IOUsual EXCEPT !.inputIndex = Num(-1)]

\* EmptyMusic: an empty object, neither state nor volume
EntityMusic == {MusicPlaying, MusicPaused, MusicNullMax, EmptyMusic, NullMusic}

EntityIO == {IOUsual, IONullTag, IONoInputs, IONoCurrent, EmptyIO}

EntityBright == {[net |-> "ok", idx |-> Num(58)], [net |-> "ok", idx |-> JStr]}

NoBag == [k |-> "none", attrs |-> InitialAttributes]

InitEntity ==
    /\ session = "open"
    /\ macStored = FALSE
    /\ state_data = InitData
    /\ sources = <<>>
    /\ source_tags = <<>>
    /\ outputs = <<>>
    /\ output_tags = <<>>
    /\ est = [IdleEst EXCEPT !.pc = "returned", !.contact = TRUE]
    /\ tick = IdleTick
    /\ last = InitialAttributes
    /\ wire = NoBag

\* the tick ended with f: when the media player's UPDATE was emitted, the
\* handler ran over what the tick stored
EntityNotified(f) ==
    /\ SetCur(f.snap)
    /\ wire' = IF f.emitted = <<>> THEN wire
               ELSE [k |-> "bag", attrs |-> f.emitted[1].attrs]
    /\ last' = IF f.emitted = <<>> THEN last
               ELSE on_device_update(last, f.snap.sd, f.snap.sources)

\* device.py 160-179 after the two fetches gave r
EntityPolled(r, d) ==
    IF r.exc # "none"
    THEN SetCur(r.snap) /\ UNCHANGED <<last, wire>>
    ELSE EntityNotified(FinishTick(r.snap, d, d))

\* one poll tick whose two fetches succeed
DevicePolls ==
    /\ \E m \in EntityMusic, io \in EntityIO, b \in EntityBright :
          EntityPolled(StoreAndParse(Cur, m, io), BrightnessOf(b))
    /\ UNCHANGED <<session, macStored, est, tick>>

\* a tick one of whose two fetches fails stores and emits nothing
DevicePollFails ==
    /\ \E exc \in NetErrors : PollCatches(exc)
    /\ UNCHANGED vars

NextEntity ==
    \/ DevicePolls
    \/ DevicePollFails

SpecEntity == InitEntity /\ [][NextEntity]_vars

\* C26: after any sequence of polls, the bag the device emits for the
\* media player in a tick equals, attribute by attribute, what the entity
\* holds after its handler recomputed them from the same snapshot: neither
\* keeps a volume, a source or a source list of an earlier snapshot when
\* the current one has none.
C26_EmittedBagIsEntityAttributes ==
    wire.k = "bag" => last = wire.attrs

\* after a tick that listed the inputs, a tick whose input list is empty:
\* the device emits no source and an empty list, the entity still holds
\* the source and the list of the earlier tick
C26_Witness ==
    /\ wire.k = "bag"
    /\ state_data.io = IONoInputs
    /\ sources = <<>>
    /\ wire.attrs.SOURCE_LIST = <<>>
    /\ wire.attrs.SOURCE = <<>>
    /\ last.SOURCE_LIST = <<DevNames.BT, DevNames.USB>>
    /\ last.SOURCE = DevNames.USB
    /\ last.STATE = wire.attrs.STATE
    /\ last.MEDIA_TITLE = wire.attrs.MEDIA_TITLE
====
